---- MODULE Spec2Model ----
(***************************************************************************)
(* A model of orchestr8's command execution abstraction (shell.py) and of  *)
(* its execution runtimes (execution_runtime/__init__.py).                 *)
(*                                                                         *)
(* Python values are encoded as follows.  A str or bytes value is a        *)
(* sequence (of one-character strings, resp. of byte values).  An optional *)
(* value is None == <<>> or Some(x) == <<x>>.  The outcome of a call is a  *)
(* record whose kind is "return" or the name of the exception raised.      *)
(***************************************************************************)
EXTENDS Integers, Sequences, FiniteSets, TLC

VARIABLES
    container,   \* IsolatedShell: the docker container and the handle's cached status
    shell,       \* IsolatedShell: the shell object
    execLog,     \* IsolatedShell: the exec_run calls received by the container
    stops,       \* IsolatedShell: number of container.stop() calls received
    last,        \* IsolatedShell: the outcome of the last operation
    gen,         \* IsolatedShell: the generator returned by the last stream() call
    hostShell,   \* Shell: the host shell object
    hostLast,    \* Shell: the last run() call, its process result and its outcome
    proc,        \* Shell.stream: the child process started by Popen
    errPipe,     \* Shell.stream: lines written to the stderr pipe and not yet read
    outPipe,     \* Shell.stream: lines written to the stdout pipe and not yet read
    hgen,        \* Shell.stream: the generator returned by the last stream() call
    projects,    \* the projects root: the directory of each project id, if any
    lastCreate,  \* the last create_project call: its arguments, effects and outcome
    venvDirs,    \* the venvs volume: the interpreter versions that have a directory
    slots,       \* the venvs volume: the venv cache slot of each (version, project id)
    rts,         \* the Isolated runtime instances, each with the call it is in
    rtCtr,       \* the container of each Isolated runtime
    venvCreations, \* history: successful `uv venv` runs per (version, project id)
    overlapped,  \* history: the slots two calls found absent before either created it
    images,      \* docker: the references of the images in the local store
    registry,    \* docker: the references of the images the registry holds
    dockerLog,   \* docker: the operations the daemon was asked for, by client call
    sbCalls,     \* SandboxClient: the calls made, with their arguments and outcomes
    factory,     \* the last create_execution_runtime call and what it returned
    existsLast,  \* the last project_exists call and what it returned
    hostRun,     \* the last run_project call on a Host runtime and its outcome
    scriptRun,   \* the last run_script call, on either runtime, and its outcome
    pypi,        \* the package index: what it answers when asked about each package
    installed,   \* the local installation: the packages that provide each module
    genLast,     \* the last generate_requirements call, its environment and outcome
    relLast,     \* the last get_package_release_info call and its outcome
    extractLast, \* the last extract_module_names call and its outcome
    server,      \* RedirectServer: the server object, its app and the port's sockets
    srvLast,     \* RedirectServer: the last operation and its outcome
    flow,        \* OAuthFlow: the last _get_auth_code or authorize call
    tracker,     \* DirectoryTracker: the tracked directory as git sees it
    trkLast      \* DirectoryTracker: the last operation, its commands and outcome

isoVars == <<container, shell, execLog, stops, last, gen>>
hostVars == <<hostShell, hostLast, proc, errPipe, outPipe, hgen>>
projVars == <<projects, lastCreate>>
rtVars == <<venvDirs, slots, rts, rtCtr, venvCreations, overlapped>>
sbVars == <<images, registry, dockerLog, sbCalls>>
apiVars == <<existsLast, hostRun, scriptRun>>
pkgVars == <<pypi, installed, genLast, relLast, extractLast>>
oauthVars == <<server, srvLast, flow>>
trkVars == <<tracker, trkLast>>

\* What the operations of one component leave alone.
isoOthers == <<hostVars, projVars, rtVars, sbVars, factory, apiVars,
               pkgVars, oauthVars, trkVars>>
hostOthers == <<isoVars, projVars, rtVars, sbVars, factory, apiVars,
               pkgVars, oauthVars, trkVars>>
projOthers == <<isoVars, hostVars, rtVars, sbVars, factory, apiVars,
               pkgVars, oauthVars, trkVars>>
rtOthers == <<isoVars, hostVars, projVars, sbVars, factory, apiVars,
               pkgVars, oauthVars, trkVars>>
sbOthers == <<isoVars, hostVars, projVars, rtVars, factory, apiVars,
               pkgVars, oauthVars, trkVars>>
apiOthers == <<isoVars, hostVars, projVars, rtVars, sbVars, factory, pkgVars,
               oauthVars, trkVars>>
pkgOthers == <<isoVars, hostVars, projVars, rtVars, sbVars, factory, apiVars,
               oauthVars, trkVars>>
oauthOthers == <<isoVars, hostVars, projVars, rtVars, sbVars, factory, apiVars, pkgVars,
                 trkVars>>
trkOthers == <<isoVars, hostVars, projVars, rtVars, sbVars, factory, apiVars, pkgVars,
               oauthVars>>

vars == <<container, shell, execLog, stops, last, gen,
          hostShell, hostLast, proc, errPipe, outPipe, hgen,
          projects, lastCreate, venvDirs, slots, rts, rtCtr, venvCreations, overlapped,
          images, registry, dockerLog, sbCalls, factory, existsLast, hostRun,
          scriptRun,
          pypi, installed, genLast, relLast, extractLast, server, srvLast, flow,
          tracker, trkLast>>

None == <<>>
Some(x) == <<x>>

(***************************************************************************)
(* Bounds of the model.                                                    *)
(***************************************************************************)
MaxExecs == 3
MaxStops == 3

(***************************************************************************)
(* bytes.decode(): every byte of the command output becomes one character. *)
(***************************************************************************)
Chr == (104 :> "h") @@ (105 :> "i") @@ (10 :> "\n") @@ (32 :> " ")

decode(bytes) == [i \in DOMAIN bytes |-> Chr[bytes[i]]]

(***************************************************************************)
(* str.strip(): leading and trailing whitespace is removed.                *)
(***************************************************************************)
Whitespace == {" ", "\n"}

RECURSIVE lstrip(_)
lstrip(s) == IF s # <<>> /\ Head(s) \in Whitespace THEN lstrip(Tail(s)) ELSE s

RECURSIVE rstrip(_)
rstrip(s) ==
    IF s # <<>> /\ s[Len(s)] \in Whitespace THEN rstrip(SubSeq(s, 1, Len(s) - 1)) ELSE s

strip(s) == rstrip(lstrip(s))

(***************************************************************************)
(*                         IsolatedShell (shell.py)                        *)
(***************************************************************************)
IsoCmds == {"pwd", "cmd"}
ExitStatuses == {0, 1}
IsoOutputs == {<<>>, <<104, 105>>}
IsoChunkLists == {<<>>, <<(<<104>>)>>, <<(<<104>>), (<<105>>)>>}
Workdirs == {None, Some(<<"h">>)}
ContainerStates == {"created", "running", "exited"}

\* container.reload(): the handle's cached status is refreshed from the daemon.
reload(c) == [c EXCEPT !.status = c.real]

\* container.stop(): asks the daemon to stop the container; the handle's cached
\* status is refreshed by reload() alone.
stop(c) == [c EXCEPT !.real = IF @ = "running" THEN "exited" ELSE @]

\* The exit code exec_run returns: None for a streaming execution.
exec_run_code(streaming, exit) == IF streaming THEN None ELSE Some(exit)

\* IsolatedShell._stop_container, as <<container, number of stop() calls made>>.
IsolatedShell_stop_container(c) ==
    IF c.status = "running" THEN <<stop(c), 1>> ELSE <<c, 0>>

\* IsolatedShell.__exec on container c: the container afterwards, the events in
\* program order and the outcome.  exec_run on a container that is not running
\* is refused by the daemon with an APIError.
IsolatedShell_exec(c, strict, cmd, streaming, exit, out) ==
    LET call == [cmd |-> cmd, stream |-> streaming, real |-> c.real] IN
    IF c.real # "running"
    THEN [c |-> c, calls |-> <<call>>, stops |-> 0, events |-> <<"exec_run">>,
          kind |-> "APIError", value |-> None]
    ELSE LET code == exec_run_code(streaming, exit) IN
         IF code # Some(0) /\ strict
         THEN LET s == IsolatedShell_stop_container(c) IN
              [c |-> s[1], calls |-> <<call>>, stops |-> s[2],
               events |-> <<"exec_run">> \o (IF s[2] = 1 THEN <<"stop">> ELSE <<>>)
                             \o <<"raise">>,
               kind |-> "ShellException", value |-> Some(out)]
         ELSE [c |-> c, calls |-> <<call>>, stops |-> 0, events |-> <<"exec_run">>,
               kind |-> "return", value |-> Some(out)]

\* IsolatedShell.run: `self.__exec(...).decode() or None`.
IsolatedShell_run(c, strict, cmd, exit, out) ==
    LET e == IsolatedShell_exec(c, strict, cmd, FALSE, exit, out) IN
    IF e.kind = "return"
    THEN [e EXCEPT !.value = IF decode(out) = <<>> THEN None ELSE Some(decode(out))]
    ELSE e

NoShell == [state |-> "none", strict |-> FALSE, workdir |-> None]
NoCall == [op |-> "none", kind |-> "none", value |-> None, events |-> <<>>,
           strict |-> FALSE, exit |-> None]
NoGen == [state |-> "none", cmd |-> "none", exit |-> None, rest |-> <<>>]

\* An exec_run call as the log keeps it: with the number of stop() calls the
\* container had received before it.
Logged(calls, n) ==
    [i \in DOMAIN calls |->
        [cmd |-> calls[i].cmd, stream |-> calls[i].stream, real |-> calls[i].real,
         stopsBefore |-> n]]

\* IsolatedShell.__init__
IsolatedShell_init ==
    /\ shell.state = "none"
    /\ \E workdir \in Workdirs, strict \in BOOLEAN, exit \in ExitStatuses, out \in IsoOutputs :
        LET c == reload(container) IN
        IF c.status # "running"
        THEN /\ container' = c
             /\ shell' = [NoShell EXCEPT !.state = "unbuilt"]
             /\ last' = [NoCall EXCEPT !.op = "init", !.kind = "ShellException"]
             /\ UNCHANGED <<execLog, stops>>
        ELSE IF workdir # None
        THEN /\ container' = c
             /\ shell' = [state |-> "ready", strict |-> strict, workdir |-> workdir]
             /\ last' = [NoCall EXCEPT !.op = "init", !.kind = "return", !.strict = strict]
             /\ UNCHANGED <<execLog, stops>>
        ELSE LET r == IsolatedShell_run(c, strict, "pwd", exit, out) IN
             /\ container' = r.c
             /\ execLog' = execLog \o Logged(r.calls, stops)
             /\ stops' = stops + r.stops
             /\ shell' = IF r.kind = "return" /\ r.value # None
                         THEN [state |-> "ready", strict |-> strict,
                               workdir |-> Some(strip(r.value[1]))]
                         ELSE [state |-> "partial", strict |-> strict, workdir |-> None]
             /\ last' = [op |-> "init",
                         kind |-> IF r.kind = "return" /\ r.value = None
                                  THEN "AttributeError" ELSE r.kind,
                         value |-> None, events |-> r.events, strict |-> strict,
                         exit |-> Some(exit)]
    /\ UNCHANGED gen
    /\ UNCHANGED isoOthers

\* IsolatedShell.run
IsoRun ==
    /\ shell.state = "ready"
    /\ Len(execLog) < MaxExecs
    /\ \E cmd \in IsoCmds, exit \in ExitStatuses, out \in IsoOutputs :
        LET r == IsolatedShell_run(container, shell.strict, cmd, exit, out) IN
        /\ container' = r.c
        /\ execLog' = execLog \o Logged(r.calls, stops)
        /\ stops' = stops + r.stops
        /\ last' = [op |-> "run", kind |-> r.kind, value |-> r.value, events |-> r.events,
                    strict |-> shell.strict, exit |-> Some(exit)]
    /\ UNCHANGED <<shell, gen>>
    /\ UNCHANGED isoOthers

\* IsolatedShell.stream: calling it only creates the generator.
IsoStream ==
    /\ shell.state = "ready"
    /\ gen.state \in {"none", "done", "raised"}
    /\ \E cmd \in IsoCmds :
        gen' = [state |-> "created", cmd |-> cmd, exit |-> None, rest |-> <<>>]
    /\ last' = [NoCall EXCEPT !.op = "stream", !.kind = "return", !.strict = shell.strict]
    /\ UNCHANGED <<container, shell, execLog, stops>>
    /\ UNCHANGED isoOthers

\* next() on the generator: the first one runs __exec, each one yields a chunk.
IsoStreamNext ==
    /\ UNCHANGED isoOthers
    /\ \/ /\ gen.state = "created"
          /\ Len(execLog) < MaxExecs
          /\ \E exit \in ExitStatuses, chunks \in IsoChunkLists :
              LET e == IsolatedShell_exec(container, shell.strict, gen.cmd, TRUE, exit, chunks) IN
              /\ container' = e.c
              /\ execLog' = execLog \o Logged(e.calls, stops)
              /\ stops' = stops + e.stops
              /\ IF e.kind # "return"
                 THEN /\ gen' = [gen EXCEPT !.state = "raised", !.exit = Some(exit)]
                      /\ last' = [op |-> "next", kind |-> e.kind, value |-> None,
                                  events |-> e.events, strict |-> shell.strict,
                                  exit |-> Some(exit)]
                 ELSE IF chunks = <<>>
                 THEN /\ gen' = [gen EXCEPT !.state = "done", !.exit = Some(exit)]
                      /\ last' = [op |-> "next", kind |-> "StopIteration", value |-> None,
                                  events |-> e.events, strict |-> shell.strict,
                                  exit |-> Some(exit)]
                 ELSE /\ gen' = [gen EXCEPT !.state = "running", !.exit = Some(exit),
                                            !.rest = Tail(chunks)]
                      /\ last' = [op |-> "next", kind |-> "return",
                                  value |-> Some(decode(Head(chunks))),
                                  events |-> e.events, strict |-> shell.strict,
                                  exit |-> Some(exit)]
          /\ UNCHANGED shell
       \/ /\ gen.state = "running"
          /\ IF gen.rest = <<>>
             THEN /\ gen' = [gen EXCEPT !.state = "done"]
                  /\ last' = [op |-> "next", kind |-> "StopIteration", value |-> None,
                              events |-> <<>>, strict |-> shell.strict, exit |-> gen.exit]
             ELSE /\ gen' = [gen EXCEPT !.rest = Tail(@)]
                  /\ last' = [op |-> "next", kind |-> "return",
                              value |-> Some(decode(Head(gen.rest))),
                              events |-> <<>>, strict |-> shell.strict, exit |-> gen.exit]
          /\ UNCHANGED <<container, shell, execLog, stops>>

\* An explicit call of IsolatedShell._stop_container
IsoStopContainer ==
    /\ shell.state = "ready"
    /\ stops < MaxStops
    /\ LET s == IsolatedShell_stop_container(container) IN
        /\ container' = s[1]
        /\ stops' = stops + s[2]
        /\ last' = [NoCall EXCEPT !.op = "stop", !.kind = "return",
                                  !.events = IF s[2] = 1 THEN <<"stop">> ELSE <<>>,
                                  !.strict = shell.strict]
    /\ UNCHANGED <<shell, execLog, gen>>
    /\ UNCHANGED isoOthers

\* IsolatedShell.__del__: the object is finalized, also when __init__ raised after
\* the container was stored; a live generator keeps the object alive.
IsolatedShell_del ==
    /\ shell.state \in {"ready", "partial"}
    /\ gen.state \notin {"created", "running"}
    /\ LET s == IsolatedShell_stop_container(container) IN
        /\ container' = s[1]
        /\ stops' = stops + s[2]
        /\ last' = [NoCall EXCEPT !.op = "del", !.kind = "return",
                                  !.events = IF s[2] = 1 THEN <<"stop">> ELSE <<>>,
                                  !.strict = shell.strict]
    /\ shell' = [shell EXCEPT !.state = "dead"]
    /\ UNCHANGED <<execLog, gen>>
    /\ UNCHANGED isoOthers

\* The container ends on its own or is stopped by someone else.
ContainerExits ==
    /\ container.real = "running"
    /\ container' = [container EXCEPT !.real = "exited"]
    /\ UNCHANGED <<shell, execLog, stops, last, gen>>
    /\ UNCHANGED isoOthers

(***************************************************************************)
(*                             Shell (shell.py)                            *)
(***************************************************************************)
MaxStrLen == 2
MaxWrites == 3
PipeCap == 2

\* The characters of a command's output: text and the newline that ends a line.
Chars == {"h", "\n"}
Strs == UNION {[1..n -> Chars] : n \in 0..MaxStrLen}
HostCmds == {<<"ls">>, <<"echo", "hi">>}
OsNames == {"posix", "nt"}

\* Shell.__validate_cmd: the argv handed to subprocess.
validate_cmd(cmd, os_name, has_SHELL) ==
    IF os_name = "nt" /\ ~has_SHELL
    THEN <<"powershell", "-NoProfile", "-NonInteractive", "-Command">> \o cmd
    ELSE cmd

\* raise_on_failure: the ShellException carries the command and the error text.
raise_on_failure(cmd, error) ==
    [kind |-> "ShellException", value |-> Some([cmd |-> cmd, error |-> error])]

\* Shell_run_raises with the strict flag forgotten.
Shell_run_raises_noflag(error, returncode, strict) ==
    error # <<>> /\ returncode # 0

\* `if error := process.stderr.strip(): if process.returncode != 0 and
\* self.__raise_on_non_zero:`: whether Shell.run raises.
Shell_run_raises(error, returncode, strict) ==
    error # <<>> /\ returncode # 0 /\ strict

\* Shell.run, from the completed process (stderr, returncode, stdout).
Shell_run(cmd, strict, stderr, returncode, stdout) ==
    LET error == strip(stderr) IN
    IF error # <<>>
    THEN IF Shell_run_raises(error, returncode, strict)
         THEN raise_on_failure(cmd, error)
         ELSE [kind |-> "return", value |-> Some(error)]
    ELSE [kind |-> "return",
          value |-> IF strip(stdout) = <<>> THEN None ELSE Some(strip(stdout))]

NoHostShell == [state |-> "none", strict |-> FALSE]
NoHostCall == [op |-> "none", cmd |-> <<>>, argv |-> <<>>, strict |-> FALSE,
               stderr |-> <<>>, returncode |-> 0, stdout |-> <<>>,
               kind |-> "none", value |-> None]
NoProc == [state |-> "none", script |-> <<>>, written |-> 0, exit |-> 0,
           returncode |-> None]
NoHostGen == [state |-> "none", cmd |-> <<>>, strict |-> FALSE, yielded |-> <<>>,
              joined |-> <<>>, kind |-> "none"]

\* What a child process does: it writes lines to stdout ("out") and stderr ("err")
\* in some order, then exits.  A line is named by its place in that order.
ProcScripts == UNION {[1..n -> {"out", "err"}] : n \in 0..MaxWrites}

\* Shell.__init__
Shell_init ==
    /\ hostShell.state = "none"
    /\ \E is_dir \in BOOLEAN, strict \in BOOLEAN :
        IF ~is_dir
        THEN /\ hostShell' = [state |-> "unbuilt", strict |-> FALSE]
             /\ hostLast' = [NoHostCall EXCEPT !.op = "init", !.kind = "NotADirectoryError"]
        ELSE /\ hostShell' = [state |-> "ready", strict |-> strict]
             /\ hostLast' = [NoHostCall EXCEPT !.op = "init", !.kind = "return",
                                               !.strict = strict]
    /\ UNCHANGED <<proc, errPipe, outPipe, hgen>>
    /\ UNCHANGED hostOthers

\* Shell.run: subprocess.run waits for the process and captures both streams.
HostRun ==
    /\ hostShell.state = "ready"
    /\ \E cmd \in HostCmds, os_name \in OsNames, stderr \in Strs, stdout \in Strs,
          returncode \in ExitStatuses :
        LET r == Shell_run(cmd, hostShell.strict, stderr, returncode, stdout) IN
        hostLast' = [op |-> "run", cmd |-> cmd, argv |-> validate_cmd(cmd, os_name, FALSE),
                     strict |-> hostShell.strict, stderr |-> stderr,
                     returncode |-> returncode, stdout |-> stdout,
                     kind |-> r.kind, value |-> r.value]
    /\ UNCHANGED <<hostShell, proc, errPipe, outPipe, hgen>>
    /\ UNCHANGED hostOthers

\* Shell.stream: calling it only creates the generator.
HostStream ==
    /\ hostShell.state = "ready"
    /\ hgen.state = "none"
    /\ \E cmd \in HostCmds :
        hgen' = [NoHostGen EXCEPT !.state = "created", !.cmd = cmd,
                                  !.strict = hostShell.strict]
    /\ UNCHANGED <<hostShell, hostLast, proc, errPipe, outPipe>>
    /\ UNCHANGED hostOthers

\* Shell_stream_order with stdout drained first.
Shell_stream_order_swapped == <<"out", "err">>

\* The pipes Shell.stream reads, in the order it reads them.
Shell_stream_order == <<"err", "out">>

\* `process.returncode != 0 and self.__raise_on_non_zero` right after Popen:
\* returncode is None until the process is waited for or polled.
Shell_stream_raises(returncode, strict) == returncode # Some(0) /\ strict

Pipe(fd) == IF fd = "err" THEN errPipe ELSE outPipe
AtEOF(fd) == proc.state = "exited" /\ Pipe(fd) = <<>>

\* The generator's first step: Popen starts the process.
HostPopen ==
    /\ hgen.state = "created"
    /\ \E script \in ProcScripts, exit \in ExitStatuses :
        proc' = [state |-> "running", script |-> script, written |-> 0, exit |-> exit,
                 returncode |-> None]
    /\ hgen' = [hgen EXCEPT !.state = IF Shell_stream_raises(None, hgen.strict)
                                      THEN "joining" ELSE Shell_stream_order[1]]
    /\ UNCHANGED <<hostShell, hostLast, errPipe, outPipe>>
    /\ UNCHANGED hostOthers

\* The generator reads the pipe it is at: a line when there is one (yielded, or
\* joined into the error text), the next pipe or the end at end-of-file.
HostRead ==
    /\ hgen.state \in {"joining", "err", "out"}
    /\ LET fd == IF hgen.state = "joining" THEN "err" ELSE hgen.state IN
       IF Pipe(fd) # <<>>
       THEN /\ hgen' = IF hgen.state = "joining"
                       THEN [hgen EXCEPT !.joined = Append(@, Head(Pipe(fd)))]
                       ELSE [hgen EXCEPT !.yielded = Append(@, Head(Pipe(fd)))]
            /\ errPipe' = IF fd = "err" THEN Tail(errPipe) ELSE errPipe
            /\ outPipe' = IF fd = "out" THEN Tail(outPipe) ELSE outPipe
       ELSE /\ AtEOF(fd)
            /\ hgen' = IF hgen.state = "joining"
                       THEN [hgen EXCEPT !.state = "raised", !.kind = "ShellException"]
                       ELSE IF hgen.state = Shell_stream_order[1]
                       THEN [hgen EXCEPT !.state = Shell_stream_order[2]]
                       ELSE [hgen EXCEPT !.state = "done", !.kind = "StopIteration"]
            /\ UNCHANGED <<errPipe, outPipe>>
    /\ UNCHANGED <<hostShell, hostLast, proc>>
    /\ UNCHANGED hostOthers

\* The process writes its next line; a write to a full pipe blocks.
ProcWrite ==
    /\ proc.state = "running"
    /\ proc.written < Len(proc.script)
    /\ LET n == proc.written + 1
           fd == proc.script[n] IN
        /\ Len(Pipe(fd)) < PipeCap
        /\ errPipe' = IF fd = "err" THEN Append(errPipe, [fd |-> fd, n |-> n]) ELSE errPipe
        /\ outPipe' = IF fd = "out" THEN Append(outPipe, [fd |-> fd, n |-> n]) ELSE outPipe
        /\ proc' = [proc EXCEPT !.written = n]
    /\ UNCHANGED <<hostShell, hostLast, hgen>>
    /\ UNCHANGED hostOthers

\* The process exits, which closes its ends of both pipes.
ProcExit ==
    /\ proc.state = "running"
    /\ proc.written = Len(proc.script)
    /\ proc' = [proc EXCEPT !.state = "exited"]
    /\ UNCHANGED <<hostShell, hostLast, errPipe, outPipe, hgen>>
    /\ UNCHANGED hostOthers

(***************************************************************************)
(*              create_project (execution_runtime/__init__.py)             *)
(***************************************************************************)
MaxCreates == 2

ProjectIds == {"a", "b"}
ScriptContents == {<<"s1">>, <<"s2">>}
\* A script path: its stem, whether a file is there, and what the file holds.
Scripts ==
    {[stem |-> "a", is_file |-> TRUE, content |-> c] : c \in ScriptContents}
    \cup {[stem |-> "b", is_file |-> TRUE, content |-> <<"s1">>],
          [stem |-> "a", is_file |-> FALSE, content |-> <<>>]}
\* The `id` argument; without one the script's stem is the id.
IdArgs == {None, Some("b")}
\* The `requirements` argument: None, a list of requirement strings, or True.
RequirementArgs ==
    {[kind |-> "None", list |-> <<>>], [kind |-> "True", list |-> <<>>],
     [kind |-> "list", list |-> <<>>], [kind |-> "list", list |-> <<"x==1">>]}
\* What generate_requirements(extract_module_names(script)) comes to: a list of
\* pinned requirements or an error, after a number of registry queries.
ResolverOutcomes ==
    {[kind |-> "return", list |-> <<>>, queries |-> 0],
     [kind |-> "return", list |-> <<"y==2">>, queries |-> 1],
     [kind |-> "LookupError", list |-> <<>>, queries |-> 1],
     [kind |-> "ValueError", list |-> <<>>, queries |-> 1],
     [kind |-> "ConnectionError", list |-> <<>>, queries |-> 1]}
NoResolver == [kind |-> "return", list |-> <<>>, queries |-> 0]
\* The resolver is consulted for requirements=True alone.
ResolverFor(requirements) ==
    IF requirements.kind = "True" THEN ResolverOutcomes ELSE {NoResolver}
\* Whether each uv command of the call succeeds; a command that is not run has
\* no outcome (FALSE).
UvOutcomes == [init : BOOLEAN, add : BOOLEAN, export : BOOLEAN]
UvFor(requirements, resolver) ==
    LET list == IF requirements.kind = "True" THEN resolver.list ELSE requirements.list IN
    IF resolver.kind # "return" THEN {[init |-> FALSE, add |-> FALSE, export |-> FALSE]}
    ELSE IF list = <<>> THEN {u \in UvOutcomes : ~u.add /\ ~u.export}
    ELSE UvOutcomes

\* project_exists
\* project_exists asking for the entry point as well.
project_exists_with_main(projs, id) ==
    projs[id] # None /\ "main.py" \in DOMAIN projs[id][1]

\* project_exists answering yes whatever the projects root holds.
project_exists_always(projs, id) == TRUE

\* `(RUNTIME_PROJECTS_DIR / __id).exists()`
project_exists(projs, id) == projs[id] # None

NoExists == [asked |-> FALSE, id |-> "a", result |-> FALSE, after |-> 0]

\* A call of project_exists; `after` is the number of create_project calls
\* made before it.
ProjectExists ==
    /\ \E id \in ProjectIds :
        existsLast' = [asked |-> TRUE, id |-> id,
                       result |-> project_exists(projects, id),
                       after |-> lastCreate.n]
    /\ UNCHANGED <<hostRun, scriptRun>>
    /\ UNCHANGED apiOthers

File(content, n) == [content |-> content, by |-> n]

\* create_project lines 105-108 with the force flag not consulted.
create_project_guard_forced(projs, project_id, force) ==
    IF project_exists(projs, project_id) THEN "rmtree" ELSE "create"

\* create_project lines 105-108: what is done about an existing project.
create_project_guard(projs, project_id, force) ==
    IF project_exists(projs, project_id)
    THEN IF ~force THEN "raise" ELSE "rmtree"
    ELSE "create"

\* _validate_script_and_requirements for a script given as a path.
validate_script_and_requirements(script, requirements, resolver) ==
    IF ~script.is_file
    THEN [kind |-> "FileNotFoundError", requirements |-> None, read |-> FALSE,
          queries |-> 0]
    ELSE IF requirements.kind = "True"
    THEN [kind |-> resolver.kind,
          requirements |-> IF resolver.kind = "return" THEN Some(resolver.list) ELSE None,
          read |-> TRUE, queries |-> resolver.queries]
    ELSE [kind |-> "return",
          requirements |-> IF requirements.kind = "None" THEN None
                           ELSE Some(requirements.list),
          read |-> FALSE, queries |-> 0]

\* `uv init <project_id>`: the skeleton of a new project.
uv_init(n) ==
    ("pyproject.toml" :> File(<<>>, n)) @@ ("hello.py" :> File(<<"hello">>, n))

Without(files, name) == [f \in DOMAIN files \ {name} |-> files[f]]
With(files, name, file) == (name :> file) @@ files

\* `uv add <requirements>`: the dependencies are recorded, locked and installed
\* into the project's local environment.
uv_add(files, reqs, n) ==
    With(With(With(files, "pyproject.toml", File(reqs, n)),
              "uv.lock", File(reqs, n)), ".venv", File(reqs, n))

\* `uv export --locked -o requirements.txt`: the lock file, flattened.
uv_export(files, n) == With(files, "requirements.txt", File(files["uv.lock"].content, n))

\* `shutil.rmtree(project_dir, ignore_errors=True)`: the directory is removed, or
\* it is not and the error is ignored.
rmtree(projs, project_id, removed) ==
    IF removed THEN [projs EXCEPT ![project_id] = None] ELSE projs

\* create_project, as call number n: the projects root afterwards, the outcome,
\* and what the call read, queried and ran.  `uv init <id>` succeeds only where
\* no project is; the later steps need the project directory.
create_project(projs, n, script, id, requirements, force, removed, resolver, uv) ==
    LET project_id == IF id # None THEN id[1] ELSE script.stem
        guard == create_project_guard(projs, project_id, force)
        quiet == [projects |-> projs, id |-> project_id, kind |-> "FileExistsError",
                  checked |-> FALSE, read |-> FALSE, queries |-> 0, cmds |-> <<>>,
                  wanted |-> FALSE]
    IN
    IF guard = "raise" THEN quiet
    ELSE
    LET cleared == IF guard = "rmtree" THEN rmtree(projs, project_id, removed) ELSE projs
        v == validate_script_and_requirements(script, requirements, resolver)
        validated == [quiet EXCEPT !.projects = cleared, !.kind = v.kind,
                                   !.checked = TRUE, !.read = v.read,
                                   !.queries = v.queries]
        inited == uv.init /\ ~project_exists(cleared, project_id)
    IN
    IF v.kind # "return" THEN validated
    ELSE IF ~inited /\ ~project_exists(cleared, project_id)
    THEN \* no directory to write main.py into
         [validated EXCEPT !.kind = "FileNotFoundError", !.cmds = <<"uv init">>]
    ELSE
    LET dir == IF inited THEN uv_init(n) ELSE cleared[project_id][1]
        written == With(Without(dir, "hello.py"), "main.py", File(script.content, n))
        wanted == v.requirements # None /\ v.requirements # Some(<<>>)
        added == IF wanted /\ uv.add THEN uv_add(written, v.requirements[1], n)
                 ELSE written
        exported == IF wanted /\ uv.export /\ "uv.lock" \in DOMAIN added
                    THEN uv_export(added, n) ELSE added
    IN [validated EXCEPT !.projects = [cleared EXCEPT ![project_id] = Some(exported)],
                         !.read = TRUE, !.wanted = wanted,
                         !.cmds = IF wanted THEN <<"uv init", "uv add", "uv export">>
                                  ELSE <<"uv init">>]

NoCreate == [n |-> 0, id |-> "a", force |-> FALSE, existed |-> FALSE,
             requirements |-> [kind |-> "None", list |-> <<>>],
             script |-> [stem |-> "a", is_file |-> FALSE, content |-> <<"s1">>],
             kind |-> "none", checked |-> FALSE, read |-> FALSE, queries |-> 0,
             cmds |-> <<>>, wanted |-> FALSE]

\* A call of create_project.
CreateProject ==
    /\ lastCreate.n < MaxCreates
    /\ \E script \in Scripts, id \in IdArgs, requirements \in RequirementArgs,
          force \in BOOLEAN :
       \E resolver \in ResolverFor(requirements) :
       \E uv \in UvFor(requirements, resolver), removed \in BOOLEAN :
        LET n == lastCreate.n + 1
            r == create_project(projects, n, script, id, requirements, force, removed,
                                resolver, uv)
        IN /\ removed \/ create_project_guard(projects, r.id, force) = "rmtree"
           /\ projects' = r.projects
           /\ lastCreate' = [n |-> n, id |-> r.id, force |-> force,
                             existed |-> project_exists(projects, r.id),
                             requirements |-> requirements, script |-> script,
                             kind |-> r.kind, checked |-> r.checked, read |-> r.read,
                             queries |-> r.queries, cmds |-> r.cmds,
                             wanted |-> r.wanted]
    /\ UNCHANGED projOthers

(***************************************************************************)
(*                    SandboxClient (sandbox_client.py)                    *)
(*                                                                         *)
(* An image name is kept as image.split(":") gives it: the sequence of its *)
(* parts between colons.  A reference of the store or of the registry is a *)
(* name with its tag, <<repository, tag>> or, with a registry port in the   *)
(* repository, <<host, port/path, tag>>.                                  *)
(***************************************************************************)
MaxDockerCalls == 2

ImageNames == {<<"img">>, <<"img", "1">>, <<"host", "5000/img", "1">>}

\* The reference docker resolves a name to: a name without tag means `latest`.
Reference(name) == IF Len(name) = 1 THEN name \o <<"latest">> ELSE name

\* What the registry may hold.
Registries ==
    {{}, {Reference(i) : i \in ImageNames},
     {Reference(i) : i \in ImageNames} \cup {<<"host", "latest">>}}

\* A build definition (a Dockerfile given as a Path or as a BytesIO), and
\* whether the daemon manages to build it.
Dockerfiles == {None, Some([builds |-> TRUE]), Some([builds |-> FALSE])}

\* A host path as a pathlib.Path, and str() of it.
HostPath(p) == [cls |-> "Path", parts |-> p]
str(path) == path.parts

\* The `volumes` argument of run_container: None, or a dict from Path to
\* bind/mode.
VolumeArgs ==
    {None,
     Some(<<>>),
     Some(<<[key |-> HostPath(<<"host", "path">>),
             value |-> [bind |-> "/container/path", mode |-> "rw"]]>>)}

\* The remaining keyword arguments of run_container.
RunKwargs == {<<>>, <<[key |-> "detach", value |-> "True"]>>}

\* The daemon as a client call sees it, and the operations asked of it.
Asked(d, op, args) == [d EXCEPT !.log = Append(@, [op |-> op, args |-> args])]

\* SandboxClient.image_exists: <<daemon, found>>.
image_exists(d, image, where) ==
    IF where = "local"
    THEN <<Asked(d, "images.get", image), Reference(image) \in d.images>>
    ELSE <<Asked(d, "images.get_registry_data", image), Reference(image) \in d.registry>>

\* `*(s if len(s := image.split(":")) == 2 else s[:1])`: the repository and tag
\* handed to images.pull.
pull_args(image) == IF Len(image) = 2 THEN image ELSE SubSeq(image, 1, 1)

\* images.pull(repository, tag): the reference is fetched from the registry into
\* the local store, or the daemon answers NotFound.
pull(d, args) ==
    LET asked == Asked(d, "images.pull", args) IN
    IF Reference(args) \in d.registry
    THEN [d |-> [asked EXCEPT !.images = @ \cup {Reference(args)}], kind |-> "return"]
    ELSE [d |-> asked, kind |-> "NotFound"]

\* api.build(fileobj, tag=image): the stream of build log entries is read to its
\* end; a step that fails is an entry of the stream, not an exception.
build(d, image, dockerfile) ==
    LET asked == Asked(d, "api.build", image) IN
    IF dockerfile.builds
    THEN [asked EXCEPT !.images = @ \cup {Reference(image)}]
    ELSE asked

\* SandboxClient.build_image
build_image(d, image, dockerfile) ==
    LET local == image_exists(d, image, "local") IN
    IF local[2] THEN [d |-> local[1], kind |-> "return", skipped |-> TRUE]
    ELSE IF dockerfile = None
    THEN LET reg == image_exists(local[1], image, "registry") IN
         IF ~reg[2] THEN [d |-> reg[1], kind |-> "Exception", skipped |-> FALSE]
         ELSE LET p == pull(reg[1], pull_args(image)) IN
              [d |-> p.d, kind |-> p.kind, skipped |-> FALSE]
    ELSE [d |-> build(local[1], image, dockerfile[1]), kind |-> "return",
          skipped |-> FALSE]

\* run_volumes with the volumes left out.
run_volumes_dropped(volumes) == <<>>

\* `run_kwargs["volumes"][str(path)] = vv` for each volume.
run_volumes(volumes) ==
    [i \in DOMAIN volumes |-> [key |-> str(volumes[i].key), value |-> volumes[i].value]]

\* SandboxClient.run_container
run_container(d, image, volumes, run_kwargs) ==
    LET local == image_exists(d, image, "local") IN
    IF ~local[2] THEN [d |-> local[1], kind |-> "Exception"]
    ELSE LET kwargs == IF volumes # None /\ volumes # Some(<<>>)
                       THEN run_kwargs \o <<[key |-> "volumes",
                                             value |-> run_volumes(volumes[1])]>>
                       ELSE run_kwargs
         IN [d |-> Asked(local[1], "containers.run", [image |-> image, kwargs |-> kwargs]),
             kind |-> "return"]

\* What call number n asked of the daemon.
AskedBy(d, n) == [i \in DOMAIN d.log |-> [call |-> n, op |-> d.log[i].op,
                                          args |-> d.log[i].args]]

\* A call of SandboxClient.build_image
SbBuildImage ==
    /\ Len(sbCalls) < MaxDockerCalls
    /\ \E image \in ImageNames, dockerfile \in Dockerfiles :
        LET n == Len(sbCalls) + 1
            r == build_image([images |-> images, log |-> <<>>, registry |-> registry],
                             image, dockerfile)
        IN /\ images' = r.d.images
           /\ dockerLog' = dockerLog \o AskedBy(r.d, n)
           /\ sbCalls' = Append(sbCalls, [op |-> "build_image", image |-> image,
                                          dockerfile |-> dockerfile, volumes |-> None,
                                          run_kwargs |-> <<>>, kind |-> r.kind,
                                          skipped |-> r.skipped, local |-> images])
    /\ UNCHANGED registry
    /\ UNCHANGED sbOthers

\* A call of SandboxClient.run_container
SbRunContainer ==
    /\ Len(sbCalls) < MaxDockerCalls
    /\ \E image \in ImageNames, volumes \in VolumeArgs, run_kwargs \in RunKwargs :
        LET n == Len(sbCalls) + 1
            r == run_container([images |-> images, log |-> <<>>, registry |-> registry],
                               image, volumes, run_kwargs)
        IN /\ images' = r.d.images
           /\ dockerLog' = dockerLog \o AskedBy(r.d, n)
           /\ sbCalls' = Append(sbCalls, [op |-> "run_container", image |-> image,
                                          dockerfile |-> None, volumes |-> volumes,
                                          run_kwargs |-> run_kwargs, kind |-> r.kind,
                                          skipped |-> FALSE, local |-> images])
    /\ UNCHANGED registry
    /\ UNCHANGED sbOthers

(***************************************************************************)
(*        IsolatedExecutionRuntime (execution_runtime/__init__.py)         *)
(***************************************************************************)
MaxCalls == 3

Runtimes == {"r1", "r2"}
Digits == {"0", "1", "2", "3", "4", "5", "6", "7", "8", "9"}
\* sys.version_info[:2] of the host interpreter, as "major.minor".
HostPython == <<"3", ".", "1", "0">>
\* The `python_tag` argument; "-a" and "-s" stand for "-alpine3.20" and "-slim".
TagArgs ==
    {None, Some(<<"3", ".", "1", "0", "-", "s">>), Some(<<"3", ".", "1", "1", "-", "s">>),
     Some(<<"3", "-", "s">>)}
Versions == {<<"3", ".", "1", "0">>, <<"3", ".", "1", "1">>}

\* python_version with a tag of a major version alone let through.
python_version_major(tag) == Some(SubSeq(tag, 1, 1))

RECURSIVE DigitRun(_)
DigitRun(s) == IF s # <<>> /\ Head(s) \in Digits THEN 1 + DigitRun(Tail(s)) ELSE 0

\* re_match(r"^(\d+\.\d+)", python_tag): group 1 of the match, or None.
python_version(tag) ==
    LET a == DigitRun(tag) IN
    IF a = 0 \/ Len(tag) < a + 2 \/ tag[a + 1] # "." THEN None
    ELSE LET b == DigitRun(SubSeq(tag, a + 2, Len(tag))) IN
         IF b = 0 THEN None ELSE Some(SubSeq(tag, 1, a + 1 + b))

NoRuntime == [state |-> "none", tag |-> <<>>, version |-> <<>>, kind |-> "none",
              pc |-> "idle", id |-> "a", absent |-> None, manifest |-> None,
              cmds |-> <<>>, venvOk |-> FALSE, hist |-> <<>>]
NoContainer == [real |-> "none", status |-> "none"]
NoSlot == None
\* NewSlot with the environment created somewhere else than in the slot.
NewSlot_elsewhere == NoSlot

\* The venv cache slot `uv venv` creates: an environment with nothing installed
\* (a slot keeps the manifest its environment was installed from).
NewSlot == Some([installed |-> None])

\* The images of an Isolated runtime: `python:<tag>` and
\* `orchestr8-runtime:py-<tag>`.
py_image(tag) == <<"python", tag>>
executor_image(tag) == <<"orchestr8-runtime", <<"p", "y", "-">> \o tag>>

\* The volumes of the runtime's container: the projects root, read-only, and
\* the venvs directory of the version.
runtime_volumes(version) ==
    Some(<<[key |-> HostPath(<<"projects">>),
            value |-> [bind |-> "/var/o8-projects", mode |-> "ro"]],
           [key |-> HostPath(<<"venvs-volume">> \o version),
            value |-> [bind |-> "/var/o8-venvs", mode |-> "rw"]]>>)

runtime_kwargs ==
    <<[key |-> "detach", value |-> "True"], [key |-> "stderr", value |-> "True"],
      [key |-> "remove", value |-> "True"]>>

\* IsolatedExecutionRuntime.__init__ on daemon d with the venvs directories
\* dirs: the outcome, the daemon and the directories afterwards, and the
\* container.  `builds` is whether the executor image's build succeeds, `started`
\* the state the daemon reports for the container that was started.
IsolatedExecutionRuntime_new(python_tag, d, dirs, builds, started) ==
    LET tag == IF python_tag # None THEN python_tag[1] ELSE HostPython \o <<"-", "a">>
        m == python_version(tag)
        failed == [kind |-> "ValueError", tag |-> tag, version |-> <<>>, d |-> d,
                   dirs |-> dirs, container |-> NoContainer]
    IN
    IF m = None THEN failed
    ELSE
    LET made == [failed EXCEPT !.version = m[1], !.dirs = dirs \cup {m[1]}]
        local == image_exists(d, py_image(tag), "local")
        found == IF local[2] THEN local ELSE image_exists(local[1], py_image(tag), "registry")
    IN
    IF ~found[2] THEN [made EXCEPT !.kind = "Exception", !.d = found[1]]
    ELSE
    LET have == image_exists(found[1], executor_image(tag), "local")
        built == IF have[2] THEN have[1]
                 ELSE build_image(have[1], executor_image(tag),
                                  Some([builds |-> builds])).d
        run == run_container(built, executor_image(tag), runtime_volumes(m[1]),
                             runtime_kwargs)
        c == reload([real |-> started, status |-> "created"])
    IN
    IF run.kind # "return" THEN [made EXCEPT !.kind = "Exception", !.d = run.d]
    ELSE [made EXCEPT !.kind = IF c.status # "running" THEN "ShellException"
                               ELSE "return",
                      !.d = run.d, !.container = c]

\* The local stores and registries a runtime for this tag may meet.
DaemonsFor(python_tag) ==
    LET tag == IF python_tag # None THEN python_tag[1] ELSE HostPython \o <<"-", "a">> IN
    {[images |-> {}, registry |-> {}, log |-> <<>>],
     [images |-> {}, registry |-> {py_image(tag)}, log |-> <<>>],
     [images |-> {py_image(tag), executor_image(tag)}, registry |-> {py_image(tag)},
      log |-> <<>>]}

\* IsolatedExecutionRuntime.__init__ for runtime r, on some daemon.
IsolatedExecutionRuntime_init(r) ==
    /\ rts[r].state = "none"
    /\ \E python_tag \in TagArgs, builds \in BOOLEAN, started \in {"running", "exited"} :
       \E d \in DaemonsFor(python_tag) :
        LET n == IsolatedExecutionRuntime_new(python_tag, d, venvDirs, builds, started) IN
        /\ venvDirs' = n.dirs
        /\ rtCtr' = [rtCtr EXCEPT ![r] = n.container]
        /\ rts' = [rts EXCEPT ![r].state = IF n.kind = "return" THEN "ready" ELSE "failed",
                              ![r].tag = n.tag, ![r].version = n.version,
                              ![r].kind = n.kind]
    /\ UNCHANGED <<slots, venvCreations, overlapped>>
    /\ UNCHANGED rtOthers

\* The call of run_project that runtime r is in, as the history keeps it.
CallRecord(rt) ==
    [id |-> rt.id, found |-> TRUE, absent |-> rt.absent, manifest |-> rt.manifest,
     cmds |-> rt.cmds, venvOk |-> rt.venvOk]

Finished(rt) ==
    [rt EXCEPT !.pc = "idle", !.hist = Append(@, CallRecord(rt))]

\* The run_project calls made so far, on all runtimes.
CallsMade(r) == Len(rts[r].hist) + (IF rts[r].pc = "idle" THEN 0 ELSE 1)
TotalCalls == CallsMade("r1") + CallsMade("r2")

\* IsolatedExecutionRuntime.run_project, lines 326-327: project_exists.
RunProject_begin(r) ==
    /\ rts[r].state = "ready"
    /\ rts[r].pc = "idle"
    /\ TotalCalls < MaxCalls
    /\ \E id \in ProjectIds :
        IF ~project_exists(projects, id)
        THEN rts' = [rts EXCEPT ![r].hist =
                        Append(@, [id |-> id, found |-> FALSE, absent |-> None,
                                   manifest |-> None, cmds |-> <<>>, venvOk |-> FALSE])]
        ELSE rts' = [rts EXCEPT ![r].pc = "check_slot", ![r].id = id,
                                ![r].absent = None, ![r].manifest = None,
                                ![r].cmds = <<>>, ![r].venvOk = FALSE]
    /\ UNCHANGED <<venvDirs, slots, rtCtr, venvCreations, overlapped>>
    /\ UNCHANGED rtOthers

\* slot_absent with the slots keyed by the project id alone.
slot_absent_any_version(version, id) == \A v \in Versions : slots[v][id] = NoSlot

\* `not (self.__venvs_dir / __id).exists()` with every slot taken for absent.
slot_absent_always(version, id) == TRUE

\* `not (self.__venvs_dir / __id).exists()`
slot_absent(version, id) == slots[version][id] = NoSlot

\* run_project, line 331: the slot is looked for.
RunProject_check_slot(r) ==
    /\ rts[r].pc = "check_slot"
    /\ LET absent == slot_absent(rts[r].version, rts[r].id) IN
        /\ rts' = [rts EXCEPT ![r].absent = Some(absent),
                              ![r].pc = IF absent THEN "venv" ELSE "main"]
        /\ overlapped' =
              IF absent /\ \E o \in Runtimes \ {r} :
                              /\ rts[o].pc = "venv"
                              /\ rts[o].version = rts[r].version
                              /\ rts[o].id = rts[r].id
              THEN overlapped \cup {<<rts[r].version, rts[r].id>>}
              ELSE overlapped
    /\ UNCHANGED <<venvDirs, slots, rtCtr, venvCreations>>
    /\ UNCHANGED rtOthers

\* run_project, line 333: `uv venv` is run in the container.  When it succeeds
\* the slot holds a fresh environment.
RunProject_venv(r) ==
    /\ rts[r].pc = "venv"
    /\ \E exit \in ExitStatuses :
        LET e == IsolatedShell_run(rtCtr[r], FALSE, "uv venv", exit, <<>>)
            v == rts[r].version
            id == rts[r].id
            issued == [rts[r] EXCEPT !.cmds = Append(@, "venv")]
        IN
        /\ rtCtr' = [rtCtr EXCEPT ![r] = e.c]
        /\ IF e.kind # "return"
           THEN /\ rts' = [rts EXCEPT ![r] = Finished(issued)]
                /\ UNCHANGED <<slots, venvCreations>>
           ELSE IF exit = 0
           THEN /\ rts' = [rts EXCEPT ![r] = [issued EXCEPT !.pc = "check_req",
                                                            !.venvOk = TRUE]]
                /\ slots' = [slots EXCEPT ![v][id] = NewSlot]
                /\ venvCreations' = [venvCreations EXCEPT ![v][id] = @ + 1]
           ELSE /\ rts' = [rts EXCEPT ![r] = [issued EXCEPT !.pc = "check_req"]]
                /\ UNCHANGED <<slots, venvCreations>>
    /\ UNCHANGED <<venvDirs, overlapped>>
    /\ UNCHANGED rtOthers

\* has_manifest with no manifest ever found.
has_manifest_never(projs, id) == FALSE

\* `(RUNTIME_PROJECTS_DIR / __id / "requirements.txt").exists()`
has_manifest(projs, id) ==
    projs[id] # None /\ "requirements.txt" \in DOMAIN projs[id][1]

\* run_project, line 335: the manifest is looked for.
RunProject_check_req(r) ==
    /\ rts[r].pc = "check_req"
    /\ LET m == has_manifest(projects, rts[r].id) IN
        rts' = [rts EXCEPT ![r].manifest = Some(m),
                           ![r].pc = IF m THEN "install" ELSE "main"]
    /\ UNCHANGED <<venvDirs, slots, rtCtr, venvCreations, overlapped>>
    /\ UNCHANGED rtOthers

\* run_project, lines 337-344: `uv pip install -r requirements.txt` is run in
\* the container.  It can succeed only with the manifest and the slot in place.
RunProject_install(r) ==
    /\ rts[r].pc = "install"
    /\ \E exit \in ExitStatuses :
        LET e == IsolatedShell_run(rtCtr[r], FALSE, "uv pip install", exit, <<>>)
            v == rts[r].version
            id == rts[r].id
            issued == [rts[r] EXCEPT !.cmds = Append(@, "install")]
        IN
        /\ exit = 0 => has_manifest(projects, id) /\ slots[v][id] # NoSlot
        /\ rtCtr' = [rtCtr EXCEPT ![r] = e.c]
        /\ IF e.kind # "return"
           THEN /\ rts' = [rts EXCEPT ![r] = Finished(issued)]
                /\ UNCHANGED slots
           ELSE /\ rts' = [rts EXCEPT ![r] = [issued EXCEPT !.pc = "main"]]
                /\ slots' = IF exit = 0
                            THEN [slots EXCEPT ![v][id] =
                                    Some([installed |->
                                            Some(projects[id][1]["requirements.txt"])])]
                            ELSE slots
    /\ UNCHANGED <<venvDirs, venvCreations, overlapped>>
    /\ UNCHANGED rtOthers

\* run_project, lines 346-348: the entry point is run with the slot's interpreter.
RunProject_main(r) ==
    /\ rts[r].pc = "main"
    /\ \E exit \in ExitStatuses :
        LET e == IsolatedShell_run(rtCtr[r], FALSE, "python main.py", exit, <<>>)
            issued == [rts[r] EXCEPT !.cmds = Append(@, "main")]
        IN
        /\ rtCtr' = [rtCtr EXCEPT ![r] = e.c]
        /\ rts' = [rts EXCEPT ![r] = Finished(issued)]
    /\ UNCHANGED <<venvDirs, slots, venvCreations, overlapped>>
    /\ UNCHANGED rtOthers

(***************************************************************************)
(*        ExecutionRuntime.run_project (execution_runtime/__init__.py)     *)
(*                                                                         *)
(* The Host runtime runs a project's entry point with the interpreter of   *)
(* the project's own environment, projects/<id>/.venv, through a Shell     *)
(* that does not raise on a non-zero exit code.                            *)
(***************************************************************************)
\* What the entry point's process may leave on a stream.
HostOutputs == {<<>>, <<"h">>}

\* `project_dir / ".venv" / self._py_exe_loc / "python"` and
\* `project_dir / "main.py"`, as the command's arguments.
host_cmd(id) == <<<<"projects", id, ".venv", "bin", "python">>,
                  <<"projects", id, "main.py">>>>

\* Whether the interpreter of the project's environment is there to be started.
python_exe_exists(projs, id) == projs[id] # None /\ ".venv" \in DOMAIN projs[id][1]

\* ExecutionRuntime.run_project: the outcome and the commands handed to
\* subprocess.run, which raises FileNotFoundError for a missing executable.
ExecutionRuntime_run_project(projs, id, stderr, returncode, stdout) ==
    IF ~project_exists(projs, id)
    THEN [kind |-> "FileNotFoundError", value |-> None, cmds |-> <<>>]
    ELSE IF ~python_exe_exists(projs, id)
    THEN [kind |-> "FileNotFoundError", value |-> None, cmds |-> <<host_cmd(id)>>]
    ELSE LET r == Shell_run(host_cmd(id), FALSE, stderr, returncode, stdout)
         IN [kind |-> r.kind, value |-> r.value, cmds |-> <<host_cmd(id)>>]

NoHostRun == [made |-> FALSE, id |-> "a", kind |-> "none", value |-> None,
              cmds |-> <<>>]

\* A call of run_project on a Host runtime.
HostRunProject ==
    /\ \E id \in ProjectIds, stderr \in HostOutputs, stdout \in HostOutputs,
          returncode \in {0, 1} :
        LET r == ExecutionRuntime_run_project(projects, id, stderr, returncode, stdout)
        IN hostRun' = [made |-> TRUE, id |-> id, kind |-> r.kind, value |-> r.value,
                       cmds |-> r.cmds]
    /\ UNCHANGED <<existsLast, scriptRun>>
    /\ UNCHANGED apiOthers

(***************************************************************************)
(*         create_execution_runtime (execution_runtime/__init__.py)        *)
(***************************************************************************)
MaxFactoryCalls == 1

\* /proc/1/cgroup: absent, or a file with its text, kept as the pieces of the
\* text around the word "docker".
CgroupFiles == {None, Some(<<"0::/">>), Some(<<"12:pids:/", "docker", "/3f4e">>)}

\* `"docker" in proc.read_text()`
mentions_docker(text) == \E i \in DOMAIN text : text[i] = "docker"

\* `(proc := Path("/proc/1/cgroup")).exists() and "docker" in proc.read_text()`
inside_container(cgroup) == cgroup # None /\ mentions_docker(cgroup[1])

\* create_execution_runtime with the test for a container left out.
create_execution_runtime_nodetect(isolate, cgroup) ==
    IF isolate THEN "Isolated" ELSE "Host"

\* create_execution_runtime: the runtime class that is constructed.
create_execution_runtime(isolate, cgroup) ==
    IF isolate /\ ~inside_container(cgroup) THEN "Isolated" ELSE "Host"

NoFactoryCall == [n |-> 0, isolate |-> FALSE, cgroup |-> None, python_tag |-> None,
                  kind |-> "none", runtime |-> "none", dirs |-> {}, local |-> {}]

\* A call of create_execution_runtime.  ExecutionRuntime() makes a Shell on the
\* projects root and asks nothing of docker.
CreateExecutionRuntime ==
    /\ factory.n < MaxFactoryCalls
    /\ \E isolate \in BOOLEAN, cgroup \in CgroupFiles, python_tag \in TagArgs,
          builds \in BOOLEAN, started \in {"running", "exited"} :
        LET n == factory.n + 1
            call == [n |-> n, isolate |-> isolate, cgroup |-> cgroup,
                     python_tag |-> python_tag, kind |-> "return", runtime |-> "Host",
                     dirs |-> venvDirs, local |-> images]
        IN
        IF create_execution_runtime(isolate, cgroup) = "Host"
        THEN /\ builds /\ started = "running"
             /\ factory' = call
             /\ UNCHANGED <<venvDirs, images, dockerLog>>
        ELSE LET r == IsolatedExecutionRuntime_new(
                          python_tag,
                          [images |-> images, registry |-> registry, log |-> <<>>],
                          venvDirs, builds, started)
             IN /\ factory' = [call EXCEPT !.kind = r.kind,
                                           !.runtime = IF r.kind = "return"
                                                       THEN "Isolated" ELSE "none"]
                /\ venvDirs' = r.dirs
                /\ images' = r.d.images
                /\ dockerLog' = dockerLog \o AskedBy(r.d, n)
    /\ UNCHANGED <<registry, sbCalls, slots, rts, rtCtr, venvCreations, overlapped>>
    /\ UNCHANGED <<isoVars, hostVars, projVars, apiVars, pkgVars, oauthVars, trkVars>>

(***************************************************************************)
(*        Dependency resolution (execution_runtime/package_utils.py)       *)
(*                                                                         *)
(* A version id is a string; "1", "2" and "3" stand for the releases 1.0.0, *)
(* 2.0.0 and 3.0.0 and "x" for an id that is no PEP 440 version.  A        *)
(* requirement `package<specifiers>` is kept as the package and the        *)
(* specifiers in the order str(SpecifierSet) gives them.                   *)
(***************************************************************************)
\* get_stdlib_modules with nothing listed.
get_stdlib_modules_empty == {}

\* get_stdlib_modules(): the names listed in stdlib.txt.
get_stdlib_modules == {"os", "sys"}

ModuleNames == {"os", "requests", "pandas", "yaml"}
\* A module's name may be asked for as a package's.
Packages == ModuleNames \cup {"PyYAML"}

\* The PEP 440 versions among the ids, lowest first.
ReleaseOrder == <<"1", "2", "3">>
VersionIds == {"1", "2", "3", "x"}

\* Version(v) parses: v is a PEP 440 version.
is_version(v) == \E i \in DOMAIN ReleaseOrder : ReleaseOrder[i] = v
Rank(v) == CHOOSE i \in DOMAIN ReleaseOrder : ReleaseOrder[i] = v

\* What the index answers to `GET <base>/<package>/json`: no answer at all, or
\* a response with a status and, for a 200, a body that arrives whole or not.
Answer(status) == [net |-> "response", status |-> status, complete |-> TRUE,
                   ids |-> <<>>, latest |-> "1"]
Releases(ids, latest) == [Answer(200) EXCEPT !.ids = ids, !.latest = latest]
Unreachable == [Answer(200) EXCEPT !.net = "unreachable"]
CutShort == [Answer(200) EXCEPT !.complete = FALSE]

\* get_package_release_info on the index's answer.  urlopen raises URLError
\* when the index cannot be reached and HTTPError for a status outside 2xx;
\* response.read() raises http.client.IncompleteRead when the connection ends
\* before the body does.
get_package_release_info(answer) ==
    LET raised(kind) == [kind |-> kind, ids |-> <<>>, latest |-> "1"] IN
    IF answer.net = "unreachable" THEN raised("ConnectionError")
    ELSE IF answer.status \notin 200..299
    THEN IF answer.status = 404 THEN raised("LookupError")
         ELSE raised("ConnectionError")
    ELSE IF answer.status # 200 THEN raised("ConnectionError")
    ELSE IF ~answer.complete THEN raised("IncompleteRead")
    ELSE [kind |-> "return", ids |-> answer.ids, latest |-> answer.latest]

NoIndex == [p \in Packages |-> Answer(404)]
NoneInstalled == [m \in ModuleNames |-> <<>>]

NoRelease == [made |-> FALSE, name |-> "requests", answer |-> Answer(404),
              kind |-> "none", ids |-> <<>>, latest |-> "1"]

\* A call of get_package_release_info.
GetPackageReleaseInfo ==
    /\ ~relLast.made /\ ~genLast.made
    /\ \E name \in Packages :
        LET r == get_package_release_info(pypi[name]) IN
        relLast' = [made |-> TRUE, name |-> name, answer |-> pypi[name],
                    kind |-> r.kind, ids |-> r.ids, latest |-> r.latest]
    /\ UNCHANGED <<pypi, installed, genLast, extractLast>>
    /\ UNCHANGED pkgOthers

Spec(op, version) == [op |-> op, version |-> version]
Pinned(pkg, version) == [pkg |-> pkg, spec |-> <<Spec("==", version)>>]

\* Specifier(f"{op}{version}") parses: the version is a PEP 440 version.
valid_specifier(spec) == is_version(spec.version)

\* `Version(v) in Specifier(...)`
contains(spec, v) ==
    CASE spec.op = ">=" -> Rank(v) >= Rank(spec.version)
      [] spec.op = "<" -> Rank(v) < Rank(spec.version)
      [] spec.op = "==" -> Rank(v) = Rank(spec.version)

\* `any(Version(v) in specifier_set for v in available_versions)`, which stops
\* at the first id that satisfies and raises InvalidVersion at an id that is no
\* version.
RECURSIVE any_satisfies(_, _)
any_satisfies(ids, specs) ==
    IF ids = <<>> THEN "False"
    ELSE IF ~is_version(Head(ids)) THEN "InvalidVersion"
    ELSE IF \A i \in DOMAIN specs : contains(specs[i], Head(ids)) THEN "True"
    ELSE any_satisfies(Tail(ids), specs)

\* str(SpecifierSet): the distinct specifiers, sorted as strings.
OpOrder == <<"<", "==", ">=">>
SortKey(spec) ==
    (CHOOSE i \in DOMAIN OpOrder : OpOrder[i] = spec.op) * (Len(ReleaseOrder) + 1)
    + Rank(spec.version)
RECURSIVE Sorted(_)
Sorted(S) ==
    IF S = {} THEN <<>>
    ELSE LET m == CHOOSE x \in S : \A y \in S : SortKey(x) <= SortKey(y)
         IN <<m>> \o Sorted(S \ {m})
specifier_set_str(specs) == Sorted({specs[i] : i \in DOMAIN specs})

Range(f) == {f[i] : i \in DOMAIN f}

\* The resolution so far: the outcome, the requirements emitted, the packages
\* the index was asked about, and the modules still to resolve.
Resolving(modules) ==
    [kind |-> "return", cls |-> "none", names |-> {}, value |-> <<>>,
     queries |-> <<>>, installables |-> modules]
Raised(acc, kind, cls, names) ==
    [acc EXCEPT !.kind = kind, !.cls = cls, !.names = names, !.value = <<>>]

\* not_found_versions with every referenced version reported.
not_found_versions_all(specifiers, available_versions) ==
    {specifiers[i].version : i \in DOMAIN specifiers}

\* `spec_versions.difference(available_versions)`
not_found_versions(specifiers, available_versions) ==
    {specifiers[i].version : i \in DOMAIN specifiers} \ Range(available_versions)

\* generate_requirements lines 271-291: one override.
override_step(acc, mod_name, dep, index) ==
    LET pkg_name == IF dep.package_name # None THEN dep.package_name[1] ELSE mod_name
        release_info == get_package_release_info(index[pkg_name])
        asked == [acc EXCEPT !.installables = @ \ {mod_name},
                             !.queries = Append(@, pkg_name)]
        specifiers == dep.specifiers
        not_found == not_found_versions(specifiers, release_info.ids)
    IN
    IF release_info.kind # "return"
    THEN Raised(asked, release_info.kind, release_info.kind, {})
    ELSE IF specifiers = <<>>
    THEN [asked EXCEPT !.value = Append(@, Pinned(pkg_name, release_info.latest))]
    ELSE IF \E i \in DOMAIN specifiers : ~valid_specifier(specifiers[i])
    THEN Raised(asked, "ValueError", "InvalidSpecifier",
                {specifiers[CHOOSE i \in DOMAIN specifiers :
                     /\ ~valid_specifier(specifiers[i])
                     /\ \A j \in 1..(i - 1) : valid_specifier(specifiers[j])].version})
    ELSE IF not_found # {}
    THEN Raised(asked, "ValueError", "ValueError", not_found)
    ELSE LET any == any_satisfies(release_info.ids, specifiers) IN
         IF any = "InvalidVersion"
         THEN Raised(asked, "ValueError", "InvalidVersion", {})
         ELSE IF any = "False" THEN Raised(asked, "ValueError", "ValueError", {})
         ELSE [asked EXCEPT !.value =
                  Append(@, [pkg |-> pkg_name, spec |-> specifier_set_str(specifiers)])]

RECURSIVE apply_overrides(_, _, _)
apply_overrides(acc, overrides, index) ==
    IF overrides = <<>> \/ acc.kind # "return" THEN acc
    ELSE apply_overrides(override_step(acc, Head(overrides).module,
                                       Head(overrides).dep, index),
                         Tail(overrides), index)

\* generate_requirements lines 297-300: the packages that provide one module.
RECURSIVE local_step(_, _, _)
local_step(acc, local_pkgs, index) ==
    IF local_pkgs = <<>> \/ acc.kind # "return" THEN acc
    ELSE LET pkg_name == Head(local_pkgs).pkg
             version == Head(local_pkgs).version
             release_info == get_package_release_info(index[pkg_name])
             asked == [acc EXCEPT !.queries = Append(@, pkg_name)]
         IN local_step(
                IF release_info.kind # "return"
                THEN Raised(asked, release_info.kind, release_info.kind, {})
                ELSE IF version \in Range(release_info.ids)
                THEN [asked EXCEPT !.value = Append(@, Pinned(pkg_name, version))]
                ELSE asked,
                Tail(local_pkgs), index)

\* installable_step with the index's latest release taken for every module.
installable_step_latest(acc, mod_name, index, local) ==
    LET release_info == get_package_release_info(index[mod_name])
        asked == [acc EXCEPT !.queries = Append(@, mod_name)]
    IN IF release_info.kind # "return"
       THEN Raised(asked, release_info.kind, release_info.kind, {})
       ELSE [asked EXCEPT !.value = Append(@, Pinned(mod_name, release_info.latest))]

installable_step_local_only(acc, mod_name, index, local) ==
    IF local[mod_name] # <<>>
    THEN local_step(acc, local[mod_name], index)
    ELSE acc

\* generate_requirements lines 294-304: one module that is left.
installable_step(acc, mod_name, index, local) ==
    IF local[mod_name] # <<>>
    THEN local_step(acc, local[mod_name], index)
    ELSE LET release_info == get_package_release_info(index[mod_name])
             asked == [acc EXCEPT !.queries = Append(@, mod_name)]
         IN IF release_info.kind # "return"
            THEN Raised(asked, release_info.kind, release_info.kind, {})
            ELSE [asked EXCEPT !.value =
                     Append(@, Pinned(mod_name, release_info.latest))]

RECURSIVE resolve_installables(_, _, _, _)
resolve_installables(acc, order, index, local) ==
    IF order = <<>> \/ acc.kind # "return" THEN acc
    ELSE resolve_installables(installable_step(acc, Head(order), index, local),
                              Tail(order), index, local)

\* The orders in which a set of strings may be iterated.
Orders(S) == {o \in [1..Cardinality(S) -> S] : Range(o) = S}

remaining_with_overridden(module_names, overrides) ==
    Range(module_names) \ get_stdlib_modules

\* The modules left once the overrides are through.
remaining(module_names, overrides) ==
    (Range(module_names) \ get_stdlib_modules)
    \ {overrides[i].module : i \in DOMAIN overrides}

\* generate_requirements; `order` is the order in which
\* `for mod_name in installables` goes through the set that is left.
generate_requirements(module_names, overrides, order, index, local) ==
    LET installables == Range(module_names) \ get_stdlib_modules
        overridden == apply_overrides(Resolving(installables), overrides, index)
    IN resolve_installables(overridden, order, index, local)

NoGenerate == [made |-> FALSE, module_names |-> <<>>, overrides |-> <<>>,
               order |-> <<>>, kind |-> "none", cls |-> "none", names |-> {},
               value |-> <<>>, queries |-> <<>>]

\* The arguments of the calls.
ModuleLists ==
    {<<>>} \cup {<<m>> : m \in ModuleNames}
    \cup {l \in {<<m, n>> : m \in ModuleNames, n \in ModuleNames} : l[1] # l[2]}

SpecLists ==
    {<<Spec(op, v)>> : op \in {">=", "<", "=="}, v \in VersionIds}
    \cup {<<Spec(">=", a), Spec("<", b)>> : a \in VersionIds, b \in VersionIds}

Override(module, package_name, specifiers) ==
    [module |-> module,
     dep |-> [package_name |-> package_name, specifiers |-> specifiers]]

OverrideArgs ==
    {<<>>}
    \cup {<<Override("yaml", Some("PyYAML"), s)>> : s \in {<<>>} \cup SpecLists}
    \cup {<<Override("requests", None, s)>> : s \in {<<>>} \cup SpecLists}

\* A call of generate_requirements.
GenerateRequirements ==
    /\ ~genLast.made /\ ~relLast.made
    /\ \E module_names \in ModuleLists, overrides \in OverrideArgs :
       \E order \in Orders(remaining(module_names, overrides)) :
        LET r == generate_requirements(module_names, overrides, order, pypi, installed)
        IN genLast' = [made |-> TRUE, module_names |-> module_names,
                       overrides |-> overrides, order |-> order, kind |-> r.kind,
                       cls |-> r.cls, names |-> r.names, value |-> r.value,
                       queries |-> r.queries]
    /\ UNCHANGED <<pypi, installed, relLast, extractLast>>
    /\ UNCHANGED pkgOthers

(***************************************************************************)
(*     extract_module_names (execution_runtime/package_utils.py)          *)
(*                                                                         *)
(* A syntax tree node has a type and the fields of the statements that     *)
(* matter: the names of an `import`, the module and level of a             *)
(* `from ... import`, and the statement lists of the compound statements.  *)
(* A dotted name is the sequence of its parts.                             *)
(***************************************************************************)
Node(type) == [type |-> type, names |-> <<>>, module |-> None, level |-> 0,
               body |-> <<>>, handlers |-> <<>>, orelse |-> <<>>, finalbody |-> <<>>]
Pass == Node("Pass")
Import(names) == [Node("Import") EXCEPT !.names = names]
ImportFrom(module, level) ==
    [Node("ImportFrom") EXCEPT !.module = module, !.level = level]
If(body, orelse) == [Node("If") EXCEPT !.body = body, !.orelse = orelse]
Try(body, handlers, orelse, finalbody) ==
    [Node("Try") EXCEPT !.body = body, !.handlers = handlers, !.orelse = orelse,
                        !.finalbody = finalbody]
ExceptHandler(body) == [Node("ExceptHandler") EXCEPT !.body = body]
FunctionDef(body) == [Node("FunctionDef") EXCEPT !.body = body]

RECURSIVE visit(_)
visit_all(stmts) == UNION {visit(stmts[i]) : i \in DOMAIN stmts}

\* visit_Import: the root of each imported name.
visit_Import(node) == {<<Head(node.names[i])>> : i \in DOMAIN node.names}

\* visit_ImportFrom: the module of an absolute import.
visit_ImportFrom(node) ==
    IF node.level = 0 /\ node.module # None THEN {node.module[1]} ELSE {}

\* visit_If going through the body alone.
visit_If_body_only(node) == visit_all(node.body)

\* visit_If: the test holds no statement; the body, then the else arm.
visit_If(node) == visit_all(node.body) \cup visit_all(node.orelse)

\* visit_Try: the body, the body of each handler, the else and finally blocks.
visit_Try(node) ==
    visit_all(node.body)
    \cup UNION {visit_all(node.handlers[i].body) : i \in DOMAIN node.handlers}
    \cup visit_all(node.orelse)
    \cup visit_all(node.finalbody)

\* NodeVisitor.generic_visit: every child node, in every field.
generic_visit(node) ==
    visit_all(node.body) \cup visit_all(node.handlers) \cup visit_all(node.orelse)
    \cup visit_all(node.finalbody)

\* NodeVisitor.visit: the visitor's method for the node's type, if it has one.
visit(node) ==
    CASE node.type = "Import" -> visit_Import(node)
      [] node.type = "ImportFrom" -> visit_ImportFrom(node)
      [] node.type = "If" -> visit_If(node)
      [] node.type = "Try" -> visit_Try(node)
      [] OTHER -> generic_visit(node)

PathTo(is_file, body) ==
    [cls |-> "Path", is_file |-> is_file,
     tree |-> [Node("Module") EXCEPT !.body = body]]
ModuleOf(body) ==
    [cls |-> "Module", is_file |-> TRUE,
     tree |-> [Node("Module") EXCEPT !.body = body]]

\* extract_module_names: the names the visitor collected, as a set; the list
\* returned is that set in the order list() goes through it.
extract_module_names(script) ==
    IF script.cls = "Path" /\ ~script.is_file
    THEN [kind |-> "FileNotFoundError", names |-> {}]
    ELSE [kind |-> "return", names |-> visit(script.tree)]

NoExtract == [made |-> FALSE, script |-> PathTo(FALSE, <<>>), kind |-> "none",
              value |-> <<>>]

\* The import statements of the scripts: `import a.b`, `import c, a`,
\* `from d.e import x`, `from . import y` and `from .f import z`.
ImportStmts ==
    {Import(<<<<"a", "b">>>>), Import(<<<<"c">>, <<"a">>>>),
     ImportFrom(Some(<<"d", "e">>), 0), ImportFrom(None, 1),
     ImportFrom(Some(<<"f">>), 1)}

\* A compound statement around the statements `inner`, in each place a
\* compound statement has for statements, with `pass` where one is needed.
Around(inner) ==
    {If(inner, <<>>), If(<<Pass>>, inner),
     Try(inner, <<ExceptHandler(<<Pass>>)>>, <<>>, <<>>),
     Try(<<Pass>>, <<ExceptHandler(inner)>>, <<>>, <<>>),
     Try(<<Pass>>, <<ExceptHandler(<<Pass>>), ExceptHandler(inner)>>, <<>>, <<>>),
     Try(<<Pass>>, <<ExceptHandler(<<Pass>>)>>, inner, <<>>),
     Try(<<Pass>>, <<>>, <<>>, inner),
     FunctionDef(inner)}

Nested ==
    LET once == UNION {Around(<<i>>) : i \in ImportStmts}
        both == {If(<<i>>, <<j>>) : i \in ImportStmts, j \in ImportStmts}
    IN once \cup both \cup UNION {Around(<<n>>) : n \in once}

ScriptArgs ==
    {PathTo(FALSE, <<>>)}
    \cup {PathTo(TRUE, <<i>>) : i \in ImportStmts}
    \cup {ModuleOf(<<n>>) : n \in Nested}
    \cup {ModuleOf(<<i, n>>) : i \in {Import(<<<<"c">>, <<"a">>>>)},
                               n \in UNION {Around(<<j>>) : j \in ImportStmts}}

\* A call of extract_module_names.
ExtractModuleNames ==
    /\ ~extractLast.made
    /\ \E script \in ScriptArgs :
        LET r == extract_module_names(script) IN
        \E order \in Orders(r.names) :
            extractLast' = [made |-> TRUE, script |-> script, kind |-> r.kind,
                            value |-> order]
    /\ UNCHANGED <<pypi, installed, genLast, relLast>>
    /\ UNCHANGED pkgOthers

(***************************************************************************)
(*            RedirectServer (oauth_flow/redirect_server.py)               *)
(*                                                                         *)
(* A request URL is kept as the sequence of the (key, value) pairs of its  *)
(* query string; "" is a blank value.                                      *)
(***************************************************************************)
Pair(key, value) == [key |-> key, value |-> value]

\* The requests that may reach the server: ?code=c1, ?error=access_denied,
\* ?code=, ?code=&code=c2, ?state=s&code=c1&code=c2, and no query at all.
RequestUrls ==
    {<<Pair("code", "c1")>>, <<Pair("error", "access_denied")>>,
     <<Pair("code", "")>>, <<Pair("code", ""), Pair("code", "c2")>>,
     <<Pair("state", "s"), Pair("code", "c1"), Pair("code", "c2")>>, <<>>}

\* What handle_request meets: nothing before the timeout, a connection that
\* never becomes a request (the handler is not called), or a request.
Arrivals == {[kind |-> "timeout", url |-> <<>>], [kind |-> "garbage", url |-> <<>>]}
            \cup {[kind |-> "request", url |-> u] : u \in RequestUrls}
Timeouts == {None, Some("10s")}

\* The server object: whether it holds a WSGIServer instance, the URL its app
\* keeps, and whether a listening socket made by a start that failed later is
\* still open; with it the state of the certificate files and whether the
\* caller is inside `with server:`.
NoServer == [instance |-> FALSE, last_request_url |-> None, leaked |-> FALSE,
             certs |-> "ok", inside |-> FALSE]
NoServerCall == [op |-> "none", kind |-> "none", value |-> None,
                 arrival |-> [kind |-> "timeout", url |-> <<>>]]

\* is_running reporting a server that was ever given an app.
is_running_always(s) == TRUE

\* `bool(self.__instance)`
is_running(s) == s.instance

\* The listening sockets open on the server's port.
Sockets(s) == (IF s.instance THEN 1 ELSE 0) + (IF s.leaked THEN 1 ELSE 0)

Returned(s, value) == [server |-> s, kind |-> "return", value |-> value]
Failed(s, kind) == [server |-> s, kind |-> kind, value |-> None]

\* RedirectServer.start; `busy` is whether another process holds the port.
\* make_server binds and listens (the port must be free: allow_reuse_address
\* is off); load_cert_chain raises on files that are no certificate and key.
RedirectServer_start(s, busy) ==
    IF is_running(s) THEN Returned(s, None)
    ELSE IF s.certs = "missing" THEN Failed(s, "FileNotFoundError")
    ELSE IF busy \/ s.leaked THEN Failed(s, "OSError")
    ELSE IF s.certs = "invalid" THEN Failed([s EXCEPT !.leaked = TRUE], "SSLError")
    ELSE Returned([s EXCEPT !.instance = TRUE], None)

\* RedirectServer.stop
RedirectServer_stop(s) ==
    IF is_running(s) THEN Returned([s EXCEPT !.instance = FALSE], None)
    ELSE Returned(s, None)

\* RedirectServer.url: the server's own URL, which has no query.
RedirectServer_url(s) ==
    IF ~is_running(s) THEN Failed(s, "RuntimeError")
    ELSE Returned(s, Some(<<>>))

\* RedirectWSGIApp.__call__: the app keeps the URL of the request.
RedirectWSGIApp_call(s, url) == [s EXCEPT !.last_request_url = Some(url)]

\* RedirectServer.intercept: handle_request calls the app if a request
\* arrives; what is returned is the URL the app keeps.
RedirectServer_intercept(s, timeout, arrival) ==
    IF ~is_running(s) THEN Failed(s, "RuntimeError")
    ELSE LET handled == IF arrival.kind = "request"
                        THEN RedirectWSGIApp_call(s, arrival.url) ELSE s
         IN Returned(handled, handled.last_request_url)

ServerCall(op, r, arrival) ==
    [op |-> op, kind |-> r.kind, value |-> r.value, arrival |-> arrival]
NoArrival == [kind |-> "timeout", url |-> <<>>]

Start ==
    /\ \E busy \in BOOLEAN :
        LET r == RedirectServer_start(server, busy) IN
        /\ server' = r.server
        /\ srvLast' = ServerCall("start", r, NoArrival)
    /\ UNCHANGED flow
    /\ UNCHANGED oauthOthers

Stop ==
    /\ LET r == RedirectServer_stop(server) IN
        /\ server' = r.server
        /\ srvLast' = ServerCall("stop", r, NoArrival)
    /\ UNCHANGED flow
    /\ UNCHANGED oauthOthers

Url ==
    /\ LET r == RedirectServer_url(server) IN
        /\ server' = r.server
        /\ srvLast' = ServerCall("url", r, NoArrival)
    /\ UNCHANGED flow
    /\ UNCHANGED oauthOthers

\* A call of intercept; without a timeout handle_request waits until
\* something arrives.
Intercept ==
    /\ \E timeout \in Timeouts, arrival \in Arrivals :
        /\ timeout = None => arrival.kind # "timeout"
        /\ LET r == RedirectServer_intercept(server, timeout, arrival) IN
            /\ server' = r.server
            /\ srvLast' = ServerCall("intercept", r, arrival)
    /\ UNCHANGED flow
    /\ UNCHANGED oauthOthers

\* `with server:` is entered: __enter__ starts the server; the block is
\* entered if that succeeds.
Enter ==
    /\ ~server.inside
    /\ \E busy \in BOOLEAN :
        LET r == RedirectServer_start(server, busy) IN
        /\ server' = [r.server EXCEPT !.inside = (r.kind = "return")]
        /\ srvLast' = ServerCall("enter", r, NoArrival)
    /\ UNCHANGED flow
    /\ UNCHANGED oauthOthers

\* The block is left, normally or by an exception: __exit__ stops the server.
Exit ==
    /\ server.inside
    /\ LET r == RedirectServer_stop(server) IN
        /\ server' = [r.server EXCEPT !.inside = FALSE]
        /\ srvLast' = ServerCall("exit", r, NoArrival)
    /\ UNCHANGED flow
    /\ UNCHANGED oauthOthers

\* OAuthFlow.redirect_url: the server is started if it is not running.
OAuthFlow_redirect_url(s, busy) ==
    LET started == IF ~is_running(s) THEN RedirectServer_start(s, busy)
                   ELSE Returned(s, None)
    IN IF started.kind # "return" THEN started
       ELSE RedirectServer_url(started.server)

\* OAuthFlow.redirect_url read on a flow that owns the server.
RedirectUrl ==
    /\ \E busy \in BOOLEAN :
        LET r == OAuthFlow_redirect_url(server, busy) IN
        /\ server' = r.server
        /\ srvLast' = ServerCall("redirect_url", r, NoArrival)
    /\ UNCHANGED flow
    /\ UNCHANGED oauthOthers

\* The WSGIServer a failed start left behind is collected and its socket
\* closed.
Collect ==
    /\ server.leaked
    /\ server' = [server EXCEPT !.leaked = FALSE]
    /\ UNCHANGED <<srvLast, flow>>
    /\ UNCHANGED oauthOthers

(***************************************************************************)
(*                  OAuthFlow (oauth_flow/__init__.py)                     *)
(***************************************************************************)
\* parse_qs(query).get(key): the values of the key that are not blank, or
\* None when there is none.
parse_qs_get(query, key) ==
    LET values == SelectSeq(query, LAMBDA p : p.key = key /\ p.value # "")
    IN IF values = <<>> THEN None
       ELSE Some([i \in DOMAIN values |-> values[i].value])

\* What a call has done so far.
FlowCall(s, kind) ==
    [server |-> s, kind |-> kind, code |-> None, token |-> None,
     intercepted |-> FALSE, req_url |-> None, generated |-> FALSE]

\* _get_auth_code with whatever was intercepted taken for an approval.
auth_code_of_any(req_url) ==
    IF req_url = None THEN [kind |-> "TimeoutError", value |-> None]
    ELSE [kind |-> "return", value |-> Some("c1")]

\* _get_auth_code lines 122-130: the outcome for what intercept returned.
auth_code_of(req_url) ==
    IF req_url = None THEN [kind |-> "TimeoutError", value |-> None]
    ELSE LET codes == parse_qs_get(req_url[1], "code") IN
         IF codes # None THEN [kind |-> "return", value |-> Some(codes[1][1])]
         ELSE [kind |-> "ConnectionAbortedError", value |-> None]

\* OAuthFlow._get_auth_code
OAuthFlow_get_auth_code(s, busy, timeout, arrival) ==
    LET url == OAuthFlow_redirect_url(s, busy) IN
    IF url.kind # "return" THEN FlowCall(url.server, url.kind)
    ELSE LET got == RedirectServer_intercept(url.server, timeout, arrival)
             code == auth_code_of(got.value)
         IN [FlowCall(got.server, code.kind) EXCEPT
                !.code = code.value, !.intercepted = TRUE, !.req_url = got.value]

\* OAuthFlow.authorize; `token` is what the subclass's _generate_access_token
\* does with the code: it returns a token or raises.
OAuthFlow_authorize(s, busy, timeout, arrival, token) ==
    LET code == OAuthFlow_get_auth_code(s, busy, timeout, arrival) IN
    IF code.kind # "return" THEN code
    ELSE [code EXCEPT !.generated = TRUE, !.kind = token.kind,
                      !.token = IF token.kind = "return" THEN Some("token")
                                ELSE None]

NoFlowCall == [op |-> "none", timeout |-> None, kind |-> "none", code |-> None,
               token |-> None, intercepted |-> FALSE, req_url |-> None,
               generated |-> FALSE]

GetAuthCode ==
    /\ \E busy \in BOOLEAN, timeout \in Timeouts, arrival \in Arrivals :
        /\ timeout = None => arrival.kind # "timeout"
        /\ LET r == OAuthFlow_get_auth_code(server, busy, timeout, arrival) IN
            /\ server' = r.server
            /\ flow' = [op |-> "_get_auth_code", timeout |-> timeout, kind |-> r.kind,
                         code |-> r.code, token |-> r.token,
                         intercepted |-> r.intercepted, req_url |-> r.req_url,
                         generated |-> r.generated]
    /\ UNCHANGED srvLast
    /\ UNCHANGED oauthOthers

Authorize ==
    /\ \E busy \in BOOLEAN, timeout \in Timeouts, arrival \in Arrivals,
          token \in {[kind |-> "return"], [kind |-> "Exception"]} :
        /\ timeout = None => arrival.kind # "timeout"
        /\ LET r == OAuthFlow_authorize(server, busy, timeout, arrival, token) IN
            /\ server' = r.server
            /\ flow' = [op |-> "authorize", timeout |-> timeout, kind |-> r.kind,
                         code |-> r.code, token |-> r.token,
                         intercepted |-> r.intercepted, req_url |-> r.req_url,
                         generated |-> r.generated]
    /\ UNCHANGED srvLast
    /\ UNCHANGED oauthOthers

(***************************************************************************)
(*              run_script (execution_runtime/__init__.py)                 *)
(*                                                                         *)
(* An argument of a command is a sequence: a path by its components, any   *)
(* other word alone.                                                       *)
(***************************************************************************)
Word(w) == <<w>>

RECURSIVE Words(_)
Words(ws) == IF ws = <<>> THEN <<>> ELSE <<Word(Head(ws))>> \o Words(Tail(ws))

\* The `args` of a run_script call.
ScriptArgLists == {<<>>, <<"-p">>}

\* `venv_dir_mount`, the venv cache slot of a project as the container sees it.
venv_dir_mount(id) == <<"var", "o8-venvs", id>>

\* run_script_cmd with the script run by the interpreter of a cached environment.
run_script_cmd_cached(target, requirements, args) ==
    <<venv_dir_mount(target[Len(target)]) \o <<"bin", "python">>, target>> \o Words(args)

\* run_script, lines 231-236 and 382-387: the `uv run` command of a script.
run_script_cmd(target, requirements, args) ==
    <<Word("uv"), Word("run"), Word("--no-project"), Word("--quiet")>>
    \o (IF requirements # None /\ requirements[1] # <<>>
        THEN <<Word("--with")>> \o Words(requirements[1])
        ELSE <<>>)
    \o <<target>>
    \o Words(args)

NoScriptRun == [made |-> FALSE, backend |-> "none", kind |-> "none", cmd |-> <<>>,
                copied |-> FALSE]

\* ExecutionRuntime.run_script: the script is run where it is, by the host shell.
ExecutionRuntime_run_script(script, requirements, resolver, args, stderr, returncode, stdout) ==
    LET v == validate_script_and_requirements(script, requirements, resolver) IN
    IF v.kind # "return"
    THEN [kind |-> v.kind, cmd |-> <<>>, copied |-> FALSE]
    ELSE LET cmd == run_script_cmd(<<"cwd", script.stem>>, v.requirements, args)
             r == Shell_run(cmd, FALSE, stderr, returncode, stdout)
         IN [kind |-> r.kind, cmd |-> cmd, copied |-> FALSE]

\* IsolatedExecutionRuntime.run_script: the script is copied to /tmp in the
\* container c and run there.
IsolatedExecutionRuntime_run_script(c, script, requirements, resolver, args, exit, out) ==
    LET v == validate_script_and_requirements(script, requirements, resolver) IN
    IF v.kind # "return"
    THEN [kind |-> v.kind, cmd |-> <<>>, copied |-> FALSE, c |-> c]
    ELSE LET cmd == run_script_cmd(<<"tmp", script.stem>>, v.requirements, args)
             e == IsolatedShell_run(c, FALSE, cmd, exit, out)
         IN [kind |-> e.kind, cmd |-> cmd, copied |-> TRUE, c |-> e.c]

\* A call of run_script on a Host runtime, the first call made on it.
HostRunScript ==
    /\ ~scriptRun.made
    /\ ~hostRun.made
    /\ \E script \in Scripts, requirements \in RequirementArgs, args \in ScriptArgLists,
          stderr \in HostOutputs, returncode \in {0, 1} :
       \E resolver \in ResolverFor(requirements) :
        LET r == ExecutionRuntime_run_script(script, requirements, resolver, args,
                                             stderr, returncode, <<>>)
        IN scriptRun' = [made |-> TRUE, backend |-> "host", kind |-> r.kind,
                         cmd |-> r.cmd, copied |-> r.copied]
    /\ UNCHANGED <<existsLast, hostRun>>
    /\ UNCHANGED apiOthers

\* A call of run_script on the Isolated runtime r, between its other calls and
\* before any call on a Host runtime.
RunScript(r) ==
    /\ rts[r].state = "ready"
    /\ rts[r].pc = "idle"
    /\ ~scriptRun.made
    /\ ~hostRun.made
    /\ \E script \in Scripts, requirements \in RequirementArgs, args \in ScriptArgLists,
          exit \in ExitStatuses, out \in IsoOutputs :
       \E resolver \in ResolverFor(requirements) :
        LET ran == IsolatedExecutionRuntime_run_script(rtCtr[r], script, requirements,
                                                       resolver, args, exit, out)
        IN /\ scriptRun' = [made |-> TRUE, backend |-> "isolated", kind |-> ran.kind,
                            cmd |-> ran.cmd, copied |-> ran.copied]
           /\ rtCtr' = [rtCtr EXCEPT ![r] = ran.c]
    /\ UNCHANGED <<existsLast, hostRun>>
    /\ UNCHANGED <<isoVars, hostVars, projVars, sbVars, factory, pkgVars, oauthVars,
                   trkVars>>
    /\ UNCHANGED <<venvDirs, slots, rts, venvCreations, overlapped>>

\* A call of run_project on a Host runtime that has run no script.
HostRunProjectFirst == ~scriptRun.made /\ HostRunProject

\* create_project(script, id="a", force=True), called while no run_project call
\* is under way, and all of whose commands succeed.
ForceCreateProject ==
    /\ lastCreate.n < MaxCreates
    /\ \A r \in Runtimes : rts[r].pc = "idle"
    /\ \E requirements \in RequirementArgs :
       \E resolver \in {o \in ResolverFor(requirements) : o.kind = "return"} :
        LET n == lastCreate.n + 1
            script == [stem |-> "a", is_file |-> TRUE, content |-> <<"s1">>]
            r == create_project(projects, n, script, None, requirements, TRUE, TRUE,
                                resolver, [init |-> TRUE, add |-> TRUE, export |-> TRUE])
        IN /\ projects' = r.projects
           /\ lastCreate' = [n |-> n, id |-> r.id, force |-> TRUE,
                             existed |-> project_exists(projects, r.id),
                             requirements |-> requirements, script |-> script,
                             kind |-> r.kind, checked |-> r.checked, read |-> r.read,
                             queries |-> r.queries, cmds |-> r.cmds,
                             wanted |-> r.wanted]
    /\ UNCHANGED projOthers

(***************************************************************************)
(*                 DirectoryTracker (directory_tracker.py)                 *)
(***************************************************************************)
\* The commands a tracker hands to its shell, named by their first words; "rm" is
\* _rm_dot_git_cmd.
TrackerCommands == {"status", "init", "lfs install", "add", "commit", "clean",
                    "reset", "rm"}

\* The command that fails during a call, if one does.  The tracker's shell is
\* strict and a failing git or rm writes its diagnostic to stderr, so Shell.run
\* raises ShellException for it.
Failures == TrackerCommands \cup {"none"}

\* The directory: whether .git is a directory in it, whether .git/lfs is, whether
\* it holds uncommitted changes and whether its size is above use_lfs_after_size.
NoTracker == [dot_git |-> FALSE, lfs |-> FALSE, changes |-> FALSE, large |-> FALSE]
NoTrackerCall == [op |-> "none", kind |-> "none", value |-> FALSE, cmds |-> <<>>,
                  tracked |-> FALSE]

\* A call in progress: the directory, the commands run so far, "running" or the
\* exception that ended the call, and the value of the last property read.
Begin(t) == [t |-> t, cmds |-> <<>>, kind |-> "running", value |-> FALSE]

\* self.__shell.run(*cmd) of the strict shell: the command is run; it fails, and
\* ShellException is raised, or it leaves the directory as `effect`.
tracker_run(st, cmd, failing, effect) ==
    IF st.kind # "running" THEN st
    ELSE IF failing = cmd
         THEN [st EXCEPT !.cmds = Append(@, cmd), !.kind = "ShellException"]
         ELSE [st EXCEPT !.cmds = Append(@, cmd), !.t = effect]

\* DirectoryTracker.is_tracking
is_tracking(t) == t.dot_git

\* raise_if_not_tracking with the check left out.
raise_if_not_tracking_never(st) == st

\* DirectoryTracker.raise_if_not_tracking
raise_if_not_tracking(st) ==
    IF st.kind = "running" /\ ~is_tracking(st.t)
    THEN [st EXCEPT !.kind = "LookupError"]
    ELSE st

\* DirectoryTracker.has_changes: bool() of what `git status --porcelain` printed;
\* Shell.run returns stderr when git wrote a warning there (warn).
has_changes(st, failing, warn) ==
    LET checked == raise_if_not_tracking(st)
        ran == tracker_run(checked, "status", failing, checked.t)
    IN  IF ran.kind = "running"
        THEN [ran EXCEPT !.value = ran.t.changes \/ warn]
        ELSE ran

\* DirectoryTracker.is_using_lfs
is_using_lfs(st) ==
    LET checked == raise_if_not_tracking(st)
    IN  IF checked.kind = "running"
        THEN [checked EXCEPT !.value = checked.t.lfs]
        ELSE checked

\* DirectoryTracker.is_lfs_required
is_lfs_required(t) == t.large

\* DirectoryTracker.commit: `git add .` then `git commit`.
tracker_commit(st, failing) ==
    LET checked == raise_if_not_tracking(st)
        added == tracker_run(checked, "add", failing, checked.t)
    IN  tracker_run(added, "commit", failing, [added.t EXCEPT !.changes = FALSE])

\* DirectoryTracker.undo: `git clean -fd` then `git reset --hard HEAD`.
tracker_undo(st, failing) ==
    LET checked == raise_if_not_tracking(st)
        cleaned == tracker_run(checked, "clean", failing, checked.t)
    IN  tracker_run(cleaned, "reset", failing, [cleaned.t EXCEPT !.changes = FALSE])

\* DirectoryTracker.delete
tracker_delete(st, commit, failing, warn) ==
    LET asked == IF commit THEN has_changes(st, failing, warn) ELSE st
        committed == IF commit /\ asked.kind = "running" /\ asked.value
                     THEN tracker_commit(asked, failing)
                     ELSE asked
    IN  IF committed.kind = "running" /\ is_tracking(committed.t)
        THEN tracker_run(committed, "rm", failing,
                         [committed.t EXCEPT !.dot_git = FALSE, !.lfs = FALSE])
        ELSE committed

\* DirectoryTracker.initialize
tracker_initialize(st, failing, warn) ==
    LET warned == IF is_tracking(st.t) THEN has_changes(st, failing, warn) ELSE st
        fresh == warned.kind = "running" /\ ~is_tracking(warned.t)
        inited == IF fresh
                  THEN tracker_run(warned, "init", failing,
                                   [warned.t EXCEPT !.dot_git = TRUE])
                  ELSE warned
        using == IF inited.kind = "running" /\ is_lfs_required(inited.t)
                 THEN is_using_lfs(inited)
                 ELSE inited
        install == using.kind = "running" /\ is_lfs_required(using.t) /\ ~using.value
        installed_lfs == IF install
                         THEN tracker_run(using, "lfs install", failing,
                                          [using.t EXCEPT !.lfs = TRUE])
                         ELSE using
    IN  IF fresh \/ install
        THEN tracker_commit(installed_lfs, failing)
        ELSE installed_lfs

\* What a finished call leaves: the directory and the record of the call.
TrackerCall(op, st) ==
    /\ tracker' = st.t
    /\ trkLast' = [op |-> op, kind |-> IF st.kind = "running" THEN "return" ELSE st.kind,
                   value |-> st.value, cmds |-> st.cmds,
                   tracked |-> is_tracking(tracker)]
    /\ UNCHANGED trkOthers

IsTracking ==
    TrackerCall("is_tracking", [Begin(tracker) EXCEPT !.value = is_tracking(tracker)])

HasChanges ==
    \E failing \in Failures, warn \in BOOLEAN :
        TrackerCall("has_changes", has_changes(Begin(tracker), failing, warn))

IsUsingLfs == TrackerCall("is_using_lfs", is_using_lfs(Begin(tracker)))

RaiseIfNotTracking ==
    TrackerCall("raise_if_not_tracking", raise_if_not_tracking(Begin(tracker)))

TrackerCommit ==
    \E failing \in Failures :
        TrackerCall("commit", tracker_commit(Begin(tracker), failing))

TrackerUndo ==
    \E failing \in Failures :
        TrackerCall("undo", tracker_undo(Begin(tracker), failing))

TrackerDelete ==
    \E commit \in BOOLEAN, failing \in Failures, warn \in BOOLEAN :
        TrackerCall("delete", tracker_delete(Begin(tracker), commit, failing, warn))

TrackerInitialize ==
    \E failing \in Failures, warn \in BOOLEAN :
        TrackerCall("initialize", tracker_initialize(Begin(tracker), failing, warn))

\* The user of the directory writes files in it: there are uncommitted changes and
\* the directory may grow above the size limit.
WriteFiles ==
    /\ \E large \in BOOLEAN :
        tracker' = [tracker EXCEPT !.changes = TRUE, !.large = @ \/ large]
    /\ UNCHANGED trkLast
    /\ UNCHANGED trkOthers

(***************************************************************************)
(*                             Specifications                              *)
(***************************************************************************)
HostRunNext ==
    \/ Shell_init
    \/ HostRun

ShellRunInit ==
    /\ hostShell = NoHostShell
    /\ hostLast = NoHostCall
    /\ proc = NoProc
    /\ errPipe = <<>>
    /\ outPipe = <<>>
    /\ hgen = NoHostGen
    /\ images = {}
    /\ registry = {}
    /\ dockerLog = <<>>
    /\ sbCalls = <<>>
    /\ factory = NoFactoryCall
    /\ existsLast = NoExists
    /\ hostRun = NoHostRun
    /\ scriptRun = NoScriptRun
    /\ pypi = NoIndex
    /\ installed = NoneInstalled
    /\ genLast = NoGenerate
    /\ relLast = NoRelease
    /\ extractLast = NoExtract
    /\ server = NoServer
    /\ srvLast = NoServerCall
    /\ flow = NoFlowCall
    /\ tracker = NoTracker
    /\ trkLast = NoTrackerCall
    /\ container = [real |-> "exited", status |-> "created"]
    /\ shell = NoShell
    /\ execLog = <<>>
    /\ stops = 0
    /\ last = NoCall
    /\ gen = NoGen
    /\ projects = [i \in ProjectIds |-> None]
    /\ lastCreate = NoCreate
    /\ venvDirs = {}
    /\ slots = [v \in Versions |-> [i \in ProjectIds |-> NoSlot]]
    /\ rts = [r \in Runtimes |-> NoRuntime]
    /\ rtCtr = [r \in Runtimes |-> NoContainer]
    /\ venvCreations = [v \in Versions |-> [i \in ProjectIds |-> 0]]
    /\ overlapped = {}

\* A host shell used through run().
SpecShellRun == ShellRunInit /\ [][HostRunNext]_vars

HostStreamNext ==
    \/ Shell_init
    \/ HostStream
    \/ HostPopen
    \/ HostRead
    \/ ProcWrite
    \/ ProcExit

ShellStreamInit ==
    /\ hostShell = NoHostShell
    /\ hostLast = NoHostCall
    /\ proc = NoProc
    /\ errPipe = <<>>
    /\ outPipe = <<>>
    /\ hgen = NoHostGen
    /\ images = {}
    /\ registry = {}
    /\ dockerLog = <<>>
    /\ sbCalls = <<>>
    /\ factory = NoFactoryCall
    /\ existsLast = NoExists
    /\ hostRun = NoHostRun
    /\ scriptRun = NoScriptRun
    /\ pypi = NoIndex
    /\ installed = NoneInstalled
    /\ genLast = NoGenerate
    /\ relLast = NoRelease
    /\ extractLast = NoExtract
    /\ server = NoServer
    /\ srvLast = NoServerCall
    /\ flow = NoFlowCall
    /\ tracker = NoTracker
    /\ trkLast = NoTrackerCall
    /\ container = [real |-> "exited", status |-> "created"]
    /\ shell = NoShell
    /\ execLog = <<>>
    /\ stops = 0
    /\ last = NoCall
    /\ gen = NoGen
    /\ projects = [i \in ProjectIds |-> None]
    /\ lastCreate = NoCreate
    /\ venvDirs = {}
    /\ slots = [v \in Versions |-> [i \in ProjectIds |-> NoSlot]]
    /\ rts = [r \in Runtimes |-> NoRuntime]
    /\ rtCtr = [r \in Runtimes |-> NoContainer]
    /\ venvCreations = [v \in Versions |-> [i \in ProjectIds |-> 0]]
    /\ overlapped = {}

\* A host shell used through stream(), with the child process it starts.
SpecShellStream == ShellStreamInit /\ [][HostStreamNext]_vars

IsoNext ==
    \/ IsolatedShell_init
    \/ IsoRun
    \/ IsoStream
    \/ IsoStreamNext
    \/ IsoStopContainer
    \/ IsolatedShell_del
    \/ ContainerExits

IsolatedShellInit ==
    /\ container \in [real : {"running", "exited"}, status : ContainerStates]
    /\ shell = NoShell
    /\ execLog = <<>>
    /\ stops = 0
    /\ last = NoCall
    /\ gen = NoGen
    /\ hostShell = NoHostShell
    /\ hostLast = NoHostCall
    /\ proc = NoProc
    /\ errPipe = <<>>
    /\ outPipe = <<>>
    /\ hgen = NoHostGen
    /\ images = {}
    /\ registry = {}
    /\ dockerLog = <<>>
    /\ sbCalls = <<>>
    /\ factory = NoFactoryCall
    /\ existsLast = NoExists
    /\ hostRun = NoHostRun
    /\ scriptRun = NoScriptRun
    /\ pypi = NoIndex
    /\ installed = NoneInstalled
    /\ genLast = NoGenerate
    /\ relLast = NoRelease
    /\ extractLast = NoExtract
    /\ server = NoServer
    /\ srvLast = NoServerCall
    /\ flow = NoFlowCall
    /\ tracker = NoTracker
    /\ trkLast = NoTrackerCall
    /\ projects = [i \in ProjectIds |-> None]
    /\ lastCreate = NoCreate
    /\ venvDirs = {}
    /\ slots = [v \in Versions |-> [i \in ProjectIds |-> NoSlot]]
    /\ rts = [r \in Runtimes |-> NoRuntime]
    /\ rtCtr = [r \in Runtimes |-> NoContainer]
    /\ venvCreations = [v \in Versions |-> [i \in ProjectIds |-> 0]]
    /\ overlapped = {}

\* An IsolatedShell on a container, with the container's own life.
SpecIsolatedShell == IsolatedShellInit /\ [][IsoNext]_vars

ProjectNext == CreateProject

ProjectInit ==
    /\ projects = [i \in ProjectIds |-> None]
    /\ lastCreate = NoCreate
    /\ venvDirs = {}
    /\ slots = [v \in Versions |-> [i \in ProjectIds |-> NoSlot]]
    /\ rts = [r \in Runtimes |-> NoRuntime]
    /\ rtCtr = [r \in Runtimes |-> NoContainer]
    /\ venvCreations = [v \in Versions |-> [i \in ProjectIds |-> 0]]
    /\ overlapped = {}
    /\ container = [real |-> "exited", status |-> "created"]
    /\ shell = NoShell
    /\ execLog = <<>>
    /\ stops = 0
    /\ last = NoCall
    /\ gen = NoGen
    /\ hostShell = NoHostShell
    /\ hostLast = NoHostCall
    /\ proc = NoProc
    /\ errPipe = <<>>
    /\ outPipe = <<>>
    /\ hgen = NoHostGen
    /\ images = {}
    /\ registry = {}
    /\ dockerLog = <<>>
    /\ sbCalls = <<>>
    /\ factory = NoFactoryCall
    /\ existsLast = NoExists
    /\ hostRun = NoHostRun
    /\ scriptRun = NoScriptRun
    /\ pypi = NoIndex
    /\ installed = NoneInstalled
    /\ genLast = NoGenerate
    /\ relLast = NoRelease
    /\ extractLast = NoExtract
    /\ server = NoServer
    /\ srvLast = NoServerCall
    /\ flow = NoFlowCall
    /\ tracker = NoTracker
    /\ trkLast = NoTrackerCall

\* Calls of create_project on an initially empty projects root.
SpecProject == ProjectInit /\ [][ProjectNext]_vars

RuntimeNext ==
    \/ \E r \in Runtimes : IsolatedExecutionRuntime_init(r)
    \/ \E r \in Runtimes : RunProject_begin(r)
    \/ \E r \in Runtimes : RunProject_check_slot(r)
    \/ \E r \in Runtimes : RunProject_venv(r)
    \/ \E r \in Runtimes : RunProject_check_req(r)
    \/ \E r \in Runtimes : RunProject_install(r)
    \/ \E r \in Runtimes : RunProject_main(r)

\* The projects roots the runtimes find: what create_project calls left there,
\* project "a" without or with a manifest, project "b" absent or with one.
Created(root, n, stem, requirements) ==
    create_project(root, n, [stem |-> stem, is_file |-> TRUE, content |-> <<"s1">>],
                   None, requirements, FALSE, TRUE, NoResolver,
                   [init |-> TRUE, add |-> TRUE, export |-> TRUE]).projects

MaterializedRoots ==
    LET none == [kind |-> "None", list |-> <<>>]
        some == [kind |-> "list", list |-> <<"x==1">>]
        as == {Created([i \in ProjectIds |-> None], 1, "a", q) : q \in {none, some}}
    IN as \cup {Created(root, 2, "b", some) : root \in as}

RuntimeInit ==
    /\ projects \in MaterializedRoots
    /\ lastCreate = NoCreate
    /\ venvDirs = {}
    /\ slots = [v \in Versions |-> [i \in ProjectIds |-> NoSlot]]
    /\ rts = [r \in Runtimes |-> NoRuntime]
    /\ rtCtr = [r \in Runtimes |-> NoContainer]
    /\ venvCreations = [v \in Versions |-> [i \in ProjectIds |-> 0]]
    /\ overlapped = {}
    /\ container = [real |-> "exited", status |-> "created"]
    /\ shell = NoShell
    /\ execLog = <<>>
    /\ stops = 0
    /\ last = NoCall
    /\ gen = NoGen
    /\ hostShell = NoHostShell
    /\ hostLast = NoHostCall
    /\ proc = NoProc
    /\ errPipe = <<>>
    /\ outPipe = <<>>
    /\ hgen = NoHostGen
    /\ images = {}
    /\ registry = {}
    /\ dockerLog = <<>>
    /\ sbCalls = <<>>
    /\ factory = NoFactoryCall
    /\ existsLast = NoExists
    /\ hostRun = NoHostRun
    /\ scriptRun = NoScriptRun
    /\ pypi = NoIndex
    /\ installed = NoneInstalled
    /\ genLast = NoGenerate
    /\ relLast = NoRelease
    /\ extractLast = NoExtract
    /\ server = NoServer
    /\ srvLast = NoServerCall
    /\ flow = NoFlowCall
    /\ tracker = NoTracker
    /\ trkLast = NoTrackerCall

\* Isolated runtimes, each in its own process, sharing the projects root and
\* the venvs volume; every step of a run_project call is a step of its process.
SpecRuntime == RuntimeInit /\ [][RuntimeNext]_vars

SandboxNext ==
    \/ SbBuildImage
    \/ SbRunContainer

SandboxInit ==
    /\ images = {}
    /\ registry \in Registries
    /\ dockerLog = <<>>
    /\ sbCalls = <<>>
    /\ factory = NoFactoryCall
    /\ existsLast = NoExists
    /\ hostRun = NoHostRun
    /\ scriptRun = NoScriptRun
    /\ pypi = NoIndex
    /\ installed = NoneInstalled
    /\ genLast = NoGenerate
    /\ relLast = NoRelease
    /\ extractLast = NoExtract
    /\ server = NoServer
    /\ srvLast = NoServerCall
    /\ flow = NoFlowCall
    /\ tracker = NoTracker
    /\ trkLast = NoTrackerCall
    /\ projects = [i \in ProjectIds |-> None]
    /\ lastCreate = NoCreate
    /\ venvDirs = {}
    /\ slots = [v \in Versions |-> [i \in ProjectIds |-> NoSlot]]
    /\ rts = [r \in Runtimes |-> NoRuntime]
    /\ rtCtr = [r \in Runtimes |-> NoContainer]
    /\ venvCreations = [v \in Versions |-> [i \in ProjectIds |-> 0]]
    /\ overlapped = {}
    /\ container = [real |-> "exited", status |-> "created"]
    /\ shell = NoShell
    /\ execLog = <<>>
    /\ stops = 0
    /\ last = NoCall
    /\ gen = NoGen
    /\ hostShell = NoHostShell
    /\ hostLast = NoHostCall
    /\ proc = NoProc
    /\ errPipe = <<>>
    /\ outPipe = <<>>
    /\ hgen = NoHostGen

\* Calls of one SandboxClient on a daemon whose local store starts empty.
SpecSandbox == SandboxInit /\ [][SandboxNext]_vars

FactoryNext == CreateExecutionRuntime

FactoryInit ==
    /\ images \in {{}, {py_image(HostPython \o <<"-", "a">>)},
                   {py_image(HostPython \o <<"-", "a">>),
                    executor_image(HostPython \o <<"-", "a">>)}}
    /\ registry \in {{}, {py_image(IF t = None THEN HostPython \o <<"-", "a">> ELSE t[1]) :
                            t \in TagArgs}}
    /\ dockerLog = <<>>
    /\ sbCalls = <<>>
    /\ factory = NoFactoryCall
    /\ existsLast = NoExists
    /\ hostRun = NoHostRun
    /\ scriptRun = NoScriptRun
    /\ pypi = NoIndex
    /\ installed = NoneInstalled
    /\ genLast = NoGenerate
    /\ relLast = NoRelease
    /\ extractLast = NoExtract
    /\ server = NoServer
    /\ srvLast = NoServerCall
    /\ flow = NoFlowCall
    /\ tracker = NoTracker
    /\ trkLast = NoTrackerCall
    /\ venvDirs \in {{}, {HostPython}}
    /\ projects = [i \in ProjectIds |-> None]
    /\ lastCreate = NoCreate
    /\ slots = [v \in Versions |-> [i \in ProjectIds |-> NoSlot]]
    /\ rts = [r \in Runtimes |-> NoRuntime]
    /\ rtCtr = [r \in Runtimes |-> NoContainer]
    /\ venvCreations = [v \in Versions |-> [i \in ProjectIds |-> 0]]
    /\ overlapped = {}
    /\ container = [real |-> "exited", status |-> "created"]
    /\ shell = NoShell
    /\ execLog = <<>>
    /\ stops = 0
    /\ last = NoCall
    /\ gen = NoGen
    /\ hostShell = NoHostShell
    /\ hostLast = NoHostCall
    /\ proc = NoProc
    /\ errPipe = <<>>
    /\ outPipe = <<>>
    /\ hgen = NoHostGen

\* Calls of create_execution_runtime on a docker daemon and a venvs volume.
SpecFactory == FactoryInit /\ [][FactoryNext]_vars

ExistsNext ==
    \/ CreateProject
    \/ ProjectExists

\* The projects roots and venv slots project_exists may be asked about: no
\* project, a bare directory, a project without and with a manifest.
FoundRoots ==
    LET none == [kind |-> "None", list |-> <<>>]
        some == [kind |-> "list", list |-> <<"x==1">>]
        empty == [i \in ProjectIds |-> None]
    IN {empty, [empty EXCEPT !["a"] = Some(<<>>)],
        Created(empty, 1, "a", none), Created(empty, 1, "a", some)}

ExistsInit ==
    /\ projects \in FoundRoots
    /\ lastCreate = [NoCreate EXCEPT !.n = MaxCreates - 1]
    /\ venvDirs = {HostPython}
    /\ slots \in {[v \in Versions |-> [i \in ProjectIds |-> NoSlot]],
                  [v \in Versions |-> [i \in ProjectIds |->
                      IF v = HostPython /\ i = "a" THEN NewSlot ELSE NoSlot]]}
    /\ rts = [r \in Runtimes |-> NoRuntime]
    /\ rtCtr = [r \in Runtimes |-> NoContainer]
    /\ venvCreations = [v \in Versions |-> [i \in ProjectIds |-> 0]]
    /\ overlapped = {}
    /\ container = [real |-> "exited", status |-> "created"]
    /\ shell = NoShell
    /\ execLog = <<>>
    /\ stops = 0
    /\ last = NoCall
    /\ gen = NoGen
    /\ hostShell = NoHostShell
    /\ hostLast = NoHostCall
    /\ proc = NoProc
    /\ errPipe = <<>>
    /\ outPipe = <<>>
    /\ hgen = NoHostGen
    /\ images = {}
    /\ registry = {}
    /\ dockerLog = <<>>
    /\ sbCalls = <<>>
    /\ factory = NoFactoryCall
    /\ existsLast = NoExists
    /\ hostRun = NoHostRun
    /\ scriptRun = NoScriptRun
    /\ pypi = NoIndex
    /\ installed = NoneInstalled
    /\ genLast = NoGenerate
    /\ relLast = NoRelease
    /\ extractLast = NoExtract
    /\ server = NoServer
    /\ srvLast = NoServerCall
    /\ flow = NoFlowCall
    /\ tracker = NoTracker
    /\ trkLast = NoTrackerCall

\* project_exists asked before and after one more call of create_project, on
\* a projects root and a venvs volume earlier calls left behind.
SpecExists == ExistsInit /\ [][ExistsNext]_vars

BackendsNext ==
    \/ \E r \in Runtimes : IsolatedExecutionRuntime_init(r)
    \/ \E r \in Runtimes : RunProject_begin(r)
    \/ \E r \in Runtimes : RunProject_check_slot(r)
    \/ \E r \in Runtimes : RunProject_venv(r)
    \/ \E r \in Runtimes : RunProject_check_req(r)
    \/ \E r \in Runtimes : RunProject_install(r)
    \/ \E r \in Runtimes : RunProject_main(r)
    \/ HostRunProject

BackendsInit ==
    /\ projects \in MaterializedRoots
    /\ lastCreate = NoCreate
    /\ venvDirs = {}
    /\ slots = [v \in Versions |-> [i \in ProjectIds |-> NoSlot]]
    /\ rts = [r \in Runtimes |->
                IF r = "r1" THEN NoRuntime
                ELSE [NoRuntime EXCEPT !.state = "failed", !.tag = <<"3", "-", "s">>,
                                       !.kind = "ValueError"]]
    /\ rtCtr = [r \in Runtimes |-> NoContainer]
    /\ venvCreations = [v \in Versions |-> [i \in ProjectIds |-> 0]]
    /\ overlapped = {}
    /\ container = [real |-> "exited", status |-> "created"]
    /\ shell = NoShell
    /\ execLog = <<>>
    /\ stops = 0
    /\ last = NoCall
    /\ gen = NoGen
    /\ hostShell = NoHostShell
    /\ hostLast = NoHostCall
    /\ proc = NoProc
    /\ errPipe = <<>>
    /\ outPipe = <<>>
    /\ hgen = NoHostGen
    /\ images = {}
    /\ registry = {}
    /\ dockerLog = <<>>
    /\ sbCalls = <<>>
    /\ factory = NoFactoryCall
    /\ existsLast = NoExists
    /\ hostRun = NoHostRun
    /\ scriptRun = NoScriptRun
    /\ pypi = NoIndex
    /\ installed = NoneInstalled
    /\ genLast = NoGenerate
    /\ relLast = NoRelease
    /\ extractLast = NoExtract
    /\ server = NoServer
    /\ srvLast = NoServerCall
    /\ flow = NoFlowCall
    /\ tracker = NoTracker
    /\ trkLast = NoTrackerCall

\* Both backends on one projects root: an Isolated runtime (a second one
\* failed to construct) and a Host runtime, each running projects.
SpecBackends == BackendsInit /\ [][BackendsNext]_vars

RequirementsNext ==
    \/ GenerateRequirements
    \/ GetPackageReleaseInfo

\* What the index may answer: releases 1 and 2 for every package, and for one
\* package something else: an error status, a status that is no error and not
\* 200, no answer, a body cut short, an id that is no version, a third release.
Indexes ==
    LET base == [p \in Packages |-> Releases(<<"1", "2">>, "2")] IN
    {base} \cup
    {[base EXCEPT ![p] = a] :
        p \in {"requests", "PyYAML"},
        a \in {Answer(404), Answer(500), Answer(204), Unreachable, CutShort,
               Releases(<<"x", "1", "2">>, "2"), Releases(<<"1", "2", "3">>, "3")}}

\* What may be installed: nothing, requests 2, requests 3, and two packages
\* that both provide `yaml`.
Installations ==
    LET dist(pkg, version) == [pkg |-> pkg, version |-> version] IN
    {NoneInstalled,
     [NoneInstalled EXCEPT !["requests"] = <<dist("requests", "2")>>],
     [NoneInstalled EXCEPT !["requests"] = <<dist("requests", "3")>>],
     [NoneInstalled EXCEPT !["yaml"] = <<dist("PyYAML", "1"), dist("yaml", "3")>>]}

RequirementsInit ==
    /\ projects = [i \in ProjectIds |-> None]
    /\ lastCreate = NoCreate
    /\ venvDirs = {}
    /\ slots = [v \in Versions |-> [i \in ProjectIds |-> NoSlot]]
    /\ rts = [r \in Runtimes |-> NoRuntime]
    /\ rtCtr = [r \in Runtimes |-> NoContainer]
    /\ venvCreations = [v \in Versions |-> [i \in ProjectIds |-> 0]]
    /\ overlapped = {}
    /\ container = [real |-> "exited", status |-> "created"]
    /\ shell = NoShell
    /\ execLog = <<>>
    /\ stops = 0
    /\ last = NoCall
    /\ gen = NoGen
    /\ hostShell = NoHostShell
    /\ hostLast = NoHostCall
    /\ proc = NoProc
    /\ errPipe = <<>>
    /\ outPipe = <<>>
    /\ hgen = NoHostGen
    /\ images = {}
    /\ registry = {}
    /\ dockerLog = <<>>
    /\ sbCalls = <<>>
    /\ factory = NoFactoryCall
    /\ existsLast = NoExists
    /\ hostRun = NoHostRun
    /\ scriptRun = NoScriptRun
    /\ pypi \in Indexes
    /\ installed \in Installations
    /\ genLast = NoGenerate
    /\ relLast = NoRelease
    /\ extractLast = NoExtract
    /\ server = NoServer
    /\ srvLast = NoServerCall
    /\ flow = NoFlowCall
    /\ tracker = NoTracker
    /\ trkLast = NoTrackerCall

\* One call, of generate_requirements or of get_package_release_info, against
\* an index and a local installation.
SpecRequirements == RequirementsInit /\ [][RequirementsNext]_vars

ExtractNext == ExtractModuleNames

ExtractInit ==
    /\ projects = [i \in ProjectIds |-> None]
    /\ lastCreate = NoCreate
    /\ venvDirs = {}
    /\ slots = [v \in Versions |-> [i \in ProjectIds |-> NoSlot]]
    /\ rts = [r \in Runtimes |-> NoRuntime]
    /\ rtCtr = [r \in Runtimes |-> NoContainer]
    /\ venvCreations = [v \in Versions |-> [i \in ProjectIds |-> 0]]
    /\ overlapped = {}
    /\ container = [real |-> "exited", status |-> "created"]
    /\ shell = NoShell
    /\ execLog = <<>>
    /\ stops = 0
    /\ last = NoCall
    /\ gen = NoGen
    /\ hostShell = NoHostShell
    /\ hostLast = NoHostCall
    /\ proc = NoProc
    /\ errPipe = <<>>
    /\ outPipe = <<>>
    /\ hgen = NoHostGen
    /\ images = {}
    /\ registry = {}
    /\ dockerLog = <<>>
    /\ sbCalls = <<>>
    /\ factory = NoFactoryCall
    /\ existsLast = NoExists
    /\ hostRun = NoHostRun
    /\ scriptRun = NoScriptRun
    /\ pypi = NoIndex
    /\ installed = NoneInstalled
    /\ genLast = NoGenerate
    /\ relLast = NoRelease
    /\ extractLast = NoExtract
    /\ server = NoServer
    /\ srvLast = NoServerCall
    /\ flow = NoFlowCall
    /\ tracker = NoTracker
    /\ trkLast = NoTrackerCall

\* One call of extract_module_names.
SpecExtract == ExtractInit /\ [][ExtractNext]_vars

RedirectServerNext ==
    \/ Start
    \/ Stop
    \/ Url
    \/ Intercept
    \/ Enter
    \/ Exit
    \/ RedirectUrl
    \/ Collect

RedirectServerInit ==
    /\ projects = [i \in ProjectIds |-> None]
    /\ lastCreate = NoCreate
    /\ venvDirs = {}
    /\ slots = [v \in Versions |-> [i \in ProjectIds |-> NoSlot]]
    /\ rts = [r \in Runtimes |-> NoRuntime]
    /\ rtCtr = [r \in Runtimes |-> NoContainer]
    /\ venvCreations = [v \in Versions |-> [i \in ProjectIds |-> 0]]
    /\ overlapped = {}
    /\ container = [real |-> "exited", status |-> "created"]
    /\ shell = NoShell
    /\ execLog = <<>>
    /\ stops = 0
    /\ last = NoCall
    /\ gen = NoGen
    /\ hostShell = NoHostShell
    /\ hostLast = NoHostCall
    /\ proc = NoProc
    /\ errPipe = <<>>
    /\ outPipe = <<>>
    /\ hgen = NoHostGen
    /\ images = {}
    /\ registry = {}
    /\ dockerLog = <<>>
    /\ sbCalls = <<>>
    /\ factory = NoFactoryCall
    /\ existsLast = NoExists
    /\ hostRun = NoHostRun
    /\ scriptRun = NoScriptRun
    /\ pypi = NoIndex
    /\ installed = NoneInstalled
    /\ genLast = NoGenerate
    /\ relLast = NoRelease
    /\ extractLast = NoExtract
    /\ server \in {[NoServer EXCEPT !.certs = c] : c \in {"ok", "missing", "invalid"}}
    /\ srvLast = NoServerCall
    /\ flow = NoFlowCall
    /\ tracker = NoTracker
    /\ trkLast = NoTrackerCall

\* A RedirectServer object and the calls made on it.
SpecRedirectServer == RedirectServerInit /\ [][RedirectServerNext]_vars

OAuthFlowNext ==
    \/ GetAuthCode
    \/ Authorize
    \/ Stop
    \/ Collect

OAuthFlowInit ==
    /\ projects = [i \in ProjectIds |-> None]
    /\ lastCreate = NoCreate
    /\ venvDirs = {}
    /\ slots = [v \in Versions |-> [i \in ProjectIds |-> NoSlot]]
    /\ rts = [r \in Runtimes |-> NoRuntime]
    /\ rtCtr = [r \in Runtimes |-> NoContainer]
    /\ venvCreations = [v \in Versions |-> [i \in ProjectIds |-> 0]]
    /\ overlapped = {}
    /\ container = [real |-> "exited", status |-> "created"]
    /\ shell = NoShell
    /\ execLog = <<>>
    /\ stops = 0
    /\ last = NoCall
    /\ gen = NoGen
    /\ hostShell = NoHostShell
    /\ hostLast = NoHostCall
    /\ proc = NoProc
    /\ errPipe = <<>>
    /\ outPipe = <<>>
    /\ hgen = NoHostGen
    /\ images = {}
    /\ registry = {}
    /\ dockerLog = <<>>
    /\ sbCalls = <<>>
    /\ factory = NoFactoryCall
    /\ existsLast = NoExists
    /\ hostRun = NoHostRun
    /\ scriptRun = NoScriptRun
    /\ pypi = NoIndex
    /\ installed = NoneInstalled
    /\ genLast = NoGenerate
    /\ relLast = NoRelease
    /\ extractLast = NoExtract
    /\ server \in {[NoServer EXCEPT !.certs = c] : c \in {"ok", "missing", "invalid"}}
    /\ srvLast = NoServerCall
    /\ flow = NoFlowCall
    /\ tracker = NoTracker
    /\ trkLast = NoTrackerCall

\* An OAuthFlow object: calls of _get_auth_code and authorize, with its
\* redirect server stopped in between or not.
SpecOAuthFlow == OAuthFlowInit /\ [][OAuthFlowNext]_vars

TrackerNext ==
    \/ IsTracking
    \/ HasChanges
    \/ IsUsingLfs
    \/ RaiseIfNotTracking
    \/ TrackerCommit
    \/ TrackerUndo
    \/ TrackerDelete
    \/ TrackerInitialize
    \/ WriteFiles

\* The directory after DirectoryTracker.__init__ returned: initialize() made it
\* tracked, with Git LFS installed when its size asked for it.
TrackerInit ==
    /\ projects = [i \in ProjectIds |-> None]
    /\ lastCreate = NoCreate
    /\ venvDirs = {}
    /\ slots = [v \in Versions |-> [i \in ProjectIds |-> NoSlot]]
    /\ rts = [r \in Runtimes |-> NoRuntime]
    /\ rtCtr = [r \in Runtimes |-> NoContainer]
    /\ venvCreations = [v \in Versions |-> [i \in ProjectIds |-> 0]]
    /\ overlapped = {}
    /\ container = [real |-> "exited", status |-> "created"]
    /\ shell = NoShell
    /\ execLog = <<>>
    /\ stops = 0
    /\ last = NoCall
    /\ gen = NoGen
    /\ hostShell = NoHostShell
    /\ hostLast = NoHostCall
    /\ proc = NoProc
    /\ errPipe = <<>>
    /\ outPipe = <<>>
    /\ hgen = NoHostGen
    /\ images = {}
    /\ registry = {}
    /\ dockerLog = <<>>
    /\ sbCalls = <<>>
    /\ factory = NoFactoryCall
    /\ existsLast = NoExists
    /\ hostRun = NoHostRun
    /\ scriptRun = NoScriptRun
    /\ pypi = NoIndex
    /\ installed = NoneInstalled
    /\ genLast = NoGenerate
    /\ relLast = NoRelease
    /\ extractLast = NoExtract
    /\ server = NoServer
    /\ srvLast = NoServerCall
    /\ flow = NoFlowCall
    /\ tracker \in {t \in [dot_git : {TRUE}, lfs : BOOLEAN, changes : BOOLEAN,
                          large : BOOLEAN] : is_lfs_required(t) => t.lfs}
    /\ trkLast = NoTrackerCall

\* A DirectoryTracker object and the operations called on it, while files are
\* written in its directory.
SpecTracker == TrackerInit /\ [][TrackerNext]_vars

CacheNext ==
    \/ IsolatedExecutionRuntime_init("r2")
    \/ RunProject_begin("r1")
    \/ RunProject_check_slot("r1")
    \/ RunProject_venv("r1")
    \/ RunProject_check_req("r1")
    \/ RunProject_install("r1")
    \/ RunProject_main("r1")
    \/ RunScript("r1")
    \/ ForceCreateProject
    \/ HostRunProjectFirst
    \/ HostRunScript

\* The projects root with projects "a" and "b", each with a manifest.
CachedRoot ==
    LET some == [kind |-> "list", list |-> <<"x==1">>] IN
    Created(Created([i \in ProjectIds |-> None], 1, "a", some), 2, "b", some)

\* The venvs volume after project "a" was run: its slot holds the environment
\* installed from its manifest.
CachedSlots ==
    [v \in Versions |-> [i \in ProjectIds |->
        IF v = HostPython /\ i = "a"
        THEN Some([installed |-> Some(CachedRoot["a"][1]["requirements.txt"])])
        ELSE NoSlot]]

\* A runtime of the host's Python version that has run project "a" in all its
\* run_project calls but one: the first created the environment and installed
\* into it, the later ones found the slot.
CachedRuntime ==
    LET first == [id |-> "a", found |-> TRUE, absent |-> Some(TRUE),
                  manifest |-> Some(TRUE), cmds |-> <<"venv", "install", "main">>,
                  venvOk |-> TRUE]
        later == [id |-> "a", found |-> TRUE, absent |-> Some(FALSE),
                  manifest |-> None, cmds |-> <<"main">>, venvOk |-> FALSE]
    IN [state |-> "ready", tag |-> HostPython \o <<"-", "a">>, version |-> HostPython,
        kind |-> "return", pc |-> "idle", id |-> "a", absent |-> Some(FALSE),
        manifest |-> None, cmds |-> <<"main">>, venvOk |-> FALSE,
        hist |-> [i \in 1..(MaxCalls - 1) |-> IF i = 1 THEN first ELSE later]]

\* The state earlier calls left: projects "a" and "b" were created, a runtime
\* was constructed and ran project "a"; one create_project call and one
\* run_project call are left to make.
CacheInit ==
    /\ projects = CachedRoot
    /\ lastCreate = [NoCreate EXCEPT !.n = MaxCreates - 1]
    /\ venvDirs = {HostPython}
    /\ slots = CachedSlots
    /\ rts = [r \in Runtimes |-> IF r = "r1" THEN CachedRuntime ELSE NoRuntime]
    /\ rtCtr = [r \in Runtimes |->
                  IF r = "r1" THEN [real |-> "running", status |-> "running"]
                  ELSE NoContainer]
    /\ venvCreations = [v \in Versions |-> [i \in ProjectIds |->
                            IF v = HostPython /\ i = "a" THEN 1 ELSE 0]]
    /\ overlapped = {}
    /\ container = [real |-> "exited", status |-> "created"]
    /\ shell = NoShell
    /\ execLog = <<>>
    /\ stops = 0
    /\ last = NoCall
    /\ gen = NoGen
    /\ hostShell = NoHostShell
    /\ hostLast = NoHostCall
    /\ proc = NoProc
    /\ errPipe = <<>>
    /\ outPipe = <<>>
    /\ hgen = NoHostGen
    /\ images = {}
    /\ registry = {}
    /\ dockerLog = <<>>
    /\ sbCalls = <<>>
    /\ factory = NoFactoryCall
    /\ existsLast = NoExists
    /\ hostRun = NoHostRun
    /\ scriptRun = NoScriptRun
    /\ pypi = NoIndex
    /\ installed = NoneInstalled
    /\ genLast = NoGenerate
    /\ relLast = NoRelease
    /\ extractLast = NoExtract
    /\ server = NoServer
    /\ srvLast = NoServerCall
    /\ flow = NoFlowCall
    /\ tracker = NoTracker
    /\ trkLast = NoTrackerCall

\* An Isolated runtime with a filled venv cache and a Host runtime on one
\* projects root: projects and scripts are run, a second Isolated runtime is
\* constructed, and project "a" is created anew with force=True.
SpecCache == CacheInit /\ [][CacheNext]_vars

(***************************************************************************)
(*                     Properties of IsolatedShell                        *)
(***************************************************************************)
ExecPhase(call) == call.op \in {"run", "next"} /\ call.events # <<>>

\* C3: no command is executed through an IsolatedShell whose container is not
\* running: construction on a container that is not running raises
\* ShellException and executes nothing, and once the container was stopped
\* through the shell no later run/stream issues an exec on it.
C3_NoExecOnStoppedContainer ==
    /\ shell.state = "unbuilt" => last.kind = "ShellException" /\ execLog = <<>>
    /\ \A i \in DOMAIN execLog : execLog[i].stopsBefore = 0

\* C4: in strict mode run and stream stop the container and then raise
\* ShellException exactly when the command's exit status is not zero, the stop
\* before the raise; without strict mode a failing command stops nothing and
\* its output is returned.
C4_StrictStopsAndRaisesIffNonZero ==
    ExecPhase(last) /\ last.kind # "APIError" =>
        IF last.strict
        THEN /\ (last.kind = "ShellException") <=> (last.exit # Some(0))
             /\ last.kind = "ShellException" =>
                    last.events = <<"exec_run", "stop", "raise">>
        ELSE last.kind # "ShellException" /\ last.events = <<"exec_run">>

\* C5: over any sequence of teardown triggers (explicit _stop_container, the
\* strict-mode stop, finalization) the container's stop() is invoked at most once.
C5_StopInvokedAtMostOnce == stops <= 1

C7_StrictRunRaisesOnEveryNonZero ==
    hostLast.op = "run" /\ hostLast.strict /\ hostLast.returncode # 0 =>
        hostLast.kind = "ShellException"

\* The lines of the process's script written to pipe fd, in production order.
Produced(fd) ==
    LET idx == {n \in DOMAIN proc.script : proc.script[n] = fd} IN
    [n \in idx |-> [fd |-> fd, n |-> n]]

\* C8: in strict mode Shell.stream raises ShellException only when the command
\* exits with a non-zero status; for a command that exits with status 0 it
\* raises nothing and yields all of the command's output lines.
C8_StrictStreamRaisesOnlyOnNonZero ==
    hgen.strict /\ proc.state = "exited" /\ proc.exit = 0 =>
        /\ hgen.state # "raised"
        /\ hgen.state = "done" => Len(hgen.yielded) = Len(proc.script)

\* C9: in what Shell.stream yields every stderr line precedes every stdout line,
\* a stdout line is yielded only after stderr was drained to its end, and the
\* lines of each stream keep their production order.
C9_StderrBeforeStdout ==
    LET y == hgen.yielded IN
    /\ \A i, j \in DOMAIN y :
          i < j => /\ ~(y[i].fd = "out" /\ y[j].fd = "err")
                   /\ y[i].fd = y[j].fd => y[i].n < y[j].n
    /\ (\E i \in DOMAIN y : y[i].fd = "out") =>
          /\ proc.state = "exited"
          /\ errPipe = <<>>
          /\ \A n \in DOMAIN Produced("err") :
                \E i \in DOMAIN y : y[i] = Produced("err")[n]

\* The process wrote a stdout line before a stderr line, and both were yielded.
C9_Witness ==
    /\ hgen.state = "done"
    /\ Len(proc.script) >= 2
    /\ proc.script[1] = "out"
    /\ proc.script[2] = "err"
    /\ Len(hgen.yielded) = Len(proc.script)

(***************************************************************************)
(*              Properties of the Isolated runtime's venv cache            *)
(***************************************************************************)
Count(cmds, k) == Cardinality({i \in DOMAIN cmds : cmds[i] = k})

\* Runtime r made two consecutive run_project calls for one materialized
\* project, and the first of them found the venv cache slot absent.
TwoCalls(r) ==
    /\ Len(rts[r].hist) >= 2
    /\ rts[r].hist[1].id = rts[r].hist[2].id
    /\ rts[r].hist[1].found /\ rts[r].hist[2].found
    /\ rts[r].hist[1].absent = Some(TRUE)

\* No other runtime has run anything.
Alone(r) == \A o \in Runtimes \ {r} : rts[o].hist = <<>> /\ rts[o].pc = "idle"

C2_CreatedAtMostOnce ==
    \A v \in Versions, id \in ProjectIds : venvCreations[v][id] <= 1

\* C2 amended: the environment of a slot is created more than once only when
\* two calls both looked for the slot before either had created it.
C2_CreatedOnceUnlessOverlapped ==
    \A v \in Versions, id \in ProjectIds :
        venvCreations[v][id] > 1 => <<v, id>> \in overlapped

\* Two runtimes of one version ran the same project one after the other: the
\* first created the environment, the second found and reused it.
C2_Witness ==
    \E v \in Versions, id \in ProjectIds :
        /\ venvCreations[v][id] = 1
        /\ <<v, id>> \notin overlapped
        /\ \A r \in Runtimes :
              /\ rts[r].version = v
              /\ Len(rts[r].hist) >= 1
              /\ rts[r].hist[1].id = id
              /\ rts[r].hist[1].found
        /\ \E r \in Runtimes : rts[r].hist[1].cmds = <<"main">>

(***************************************************************************)
(*                      Properties of create_project                       *)
(***************************************************************************)
\* C10: create_project for an id whose directory exists, with force=False,
\* raises FileExistsError before any other effect: the projects root is left as
\* it was, the script is neither looked for nor read, no resolver query is made
\* and no command is run.
C10_ExistingIdWithoutForce ==
    [][(/\ lastCreate'.n # lastCreate.n
        /\ project_exists(projects, lastCreate'.id)
        /\ ~lastCreate'.force)
       => /\ lastCreate'.kind = "FileExistsError"
          /\ projects' = projects
          /\ ~lastCreate'.checked /\ ~lastCreate'.read
          /\ lastCreate'.queries = 0
          /\ lastCreate'.cmds = <<>>]_vars

\* A second create_project call for an existing id, without force, that named a
\* script and asked for requirements to be derived.
C10_Witness ==
    /\ lastCreate.kind = "FileExistsError"
    /\ lastCreate.existed /\ ~lastCreate.force
    /\ lastCreate.script.is_file
    /\ lastCreate.requirements.kind = "True"
    /\ project_exists(projects, lastCreate.id)

\* The directory of project id.
Dir(id) == projects[id][1]

\* The last create_project call returned and wrote the directory of its id.
Produced_by_last(id) ==
    /\ lastCreate.kind = "return"
    /\ lastCreate.id = id
    /\ project_exists(projects, id)
    /\ "main.py" \in DOMAIN Dir(id)
    /\ Dir(id)["main.py"].by = lastCreate.n

\* C11: after create_project with force=True on an existing id has returned, the
\* project directory holds only what this call produced: nothing of the prior
\* project survives, main.py is the new script, the placeholder is gone, and
\* there is a manifest exactly when requirements were asked for in this call.
C11_ForcedReplacesWholesale ==
    lastCreate.kind = "return" /\ lastCreate.force /\ lastCreate.existed =>
        /\ project_exists(projects, lastCreate.id)
        /\ \A f \in DOMAIN Dir(lastCreate.id) : Dir(lastCreate.id)[f].by = lastCreate.n
        /\ "main.py" \in DOMAIN Dir(lastCreate.id)
        /\ Dir(lastCreate.id)["main.py"].content = lastCreate.script.content
        /\ "hello.py" \notin DOMAIN Dir(lastCreate.id)
        /\ "requirements.txt" \in DOMAIN Dir(lastCreate.id) <=> lastCreate.wanted

\* C12: every directory under the projects root is a complete project: it has
\* main.py and, when the call that wrote it asked for requirements, the manifest.
C12_NeverPartiallyMaterialized ==
    \A id \in ProjectIds :
        project_exists(projects, id) =>
            /\ "main.py" \in DOMAIN Dir(id)
            /\ Produced_by_last(id) /\ lastCreate.wanted =>
                  "requirements.txt" \in DOMAIN Dir(id)

\* C13: a project directory has a manifest only if the call that produced it was
\* given requirements=True or a non-empty list of requirements.
C13_ManifestOnlyIfRequested ==
    \A id \in ProjectIds :
        Produced_by_last(id) /\ "requirements.txt" \in DOMAIN Dir(id) =>
            \/ lastCreate.requirements.kind = "True"
            \/ lastCreate.requirements.list # <<>>

(***************************************************************************)
(*                       Properties of SandboxClient                       *)
(***************************************************************************)
\* The operations of kind op that call k asked of the daemon.
OpsOf(k, ops) == {i \in DOMAIN dockerLog : dockerLog[i].call = k /\ dockerLog[i].op \in ops}

\* Calls k and k+1 are build_image calls for one image name that was absent
\* from the local store and was in the registry or came with a build definition.
TwoBuilds(k) ==
    /\ k + 1 \in DOMAIN sbCalls
    /\ sbCalls[k].op = "build_image" /\ sbCalls[k + 1].op = "build_image"
    /\ sbCalls[k].image = sbCalls[k + 1].image
    /\ Reference(sbCalls[k].image) \notin sbCalls[k].local
    /\ \/ Reference(sbCalls[k].image) \in registry
       \/ sbCalls[k].dockerfile # None

\* C14: two consecutive build_image calls for an image that is not in the local
\* store pull or build exactly once; the second call finds the image in the
\* store, skips, and neither pulls nor builds.
C14_BuildImageIdempotent ==
    \A k \in DOMAIN sbCalls :
        TwoBuilds(k) =>
            /\ Cardinality(OpsOf(k, {"images.pull", "api.build"})) = 1
            /\ OpsOf(k + 1, {"images.pull", "api.build"}) = {}
            /\ sbCalls[k + 1].skipped

\* C15: run_container neither builds nor pulls; for an image that is not in the
\* local store it raises and starts nothing; for one that is, it starts exactly
\* one container from it, with each volume keyed by its host path as a string and
\* the other options as they were given.
C15_RunContainerOnlyRuns ==
    \A k \in DOMAIN sbCalls :
        sbCalls[k].op = "run_container" =>
            LET c == sbCalls[k]
                runs == OpsOf(k, {"containers.run"})
                vols == IF c.volumes = None THEN <<>> ELSE c.volumes[1]
            IN
            /\ OpsOf(k, {"images.pull", "api.build"}) = {}
            /\ IF Reference(c.image) \notin c.local
               THEN c.kind = "Exception" /\ runs = {}
               ELSE /\ c.kind = "return"
                    /\ Cardinality(runs) = 1
                    /\ \A i \in runs :
                        LET a == dockerLog[i].args IN
                        /\ a.image = c.image
                        /\ \A j \in DOMAIN c.run_kwargs : a.kwargs[j] = c.run_kwargs[j]
                        /\ IF vols = <<>>
                           THEN Len(a.kwargs) = Len(c.run_kwargs)
                           ELSE /\ Len(a.kwargs) = Len(c.run_kwargs) + 1
                                /\ a.kwargs[Len(a.kwargs)].key = "volumes"
                                /\ LET passed == a.kwargs[Len(a.kwargs)].value IN
                                   /\ Len(passed) = Len(vols)
                                   /\ \A j \in DOMAIN vols :
                                        /\ passed[j].key = vols[j].key.parts
                                        /\ passed[j].value = vols[j].value

\* An image was pulled, then a container was started from it with a volume and
\* a further option.
C15_Witness ==
    /\ Len(sbCalls) = 2
    /\ sbCalls[1].op = "build_image" /\ sbCalls[1].kind = "return"
    /\ sbCalls[2].op = "run_container" /\ sbCalls[2].kind = "return"
    /\ sbCalls[2].volumes \notin {None, Some(<<>>)}
    /\ sbCalls[2].run_kwargs # <<>>
    /\ OpsOf(2, {"containers.run"}) # {}

(***************************************************************************)
(*                 Properties of create_execution_runtime                  *)
(***************************************************************************)
\* The process of the last call looked like one inside a container: it had a
\* /proc/1/cgroup file that mentions docker.
DetectedInside ==
    /\ factory.cgroup # None
    /\ "docker" \in {factory.cgroup[1][i] : i \in DOMAIN factory.cgroup[1]}

\* The tag starts with digits, a dot and digits.
StartsWithMajorMinor(tag) ==
    \E a \in 1..Len(tag), b \in 1..Len(tag) :
        /\ a + 1 + b <= Len(tag)
        /\ \A i \in 1..a : tag[i] \in Digits
        /\ tag[a + 1] = "."
        /\ \A i \in (a + 2)..(a + 1 + b) : tag[i] \in Digits

\* C16: create_execution_runtime returns an Isolated runtime exactly when
\* isolate is true and the process is not found to be inside a container; with
\* isolate true inside a container it returns a Host runtime and asks docker
\* for nothing: no image check, no build, no container.
C16_IsolatedIffNotInContainer ==
    factory.n > 0 =>
        LET inside == DetectedInside IN
        /\ factory.kind = "return" =>
              (factory.runtime = "Isolated" <=> (factory.isolate /\ ~inside))
        /\ factory.isolate /\ inside =>
              /\ factory.kind = "return" /\ factory.runtime = "Host"
              /\ OpsOf(factory.n, {"images.get", "images.get_registry_data",
                                   "images.pull", "api.build", "containers.run"}) = {}
              /\ images = factory.local

\* An isolated runtime was asked for inside a container, on a daemon that has
\* images, and a Host runtime was returned.
C16_Witness ==
    /\ factory.isolate /\ DetectedInside
    /\ factory.kind = "return" /\ factory.runtime = "Host"
    /\ images # {}

\* C17: constructing an Isolated runtime with a python_tag that does not start
\* with major.minor raises ValueError before any effect: no venvs directory is
\* made, no image is looked for, built or pulled, and no container is started.
C17_BadTagRaisesFirst ==
    /\ factory.n > 0
    /\ factory.isolate /\ ~DetectedInside
    /\ factory.python_tag # None
    /\ ~StartsWithMajorMinor(factory.python_tag[1])
    => /\ factory.kind = "ValueError"
       /\ venvDirs = factory.dirs
       /\ images = factory.local
       /\ OpsOf(factory.n, {"images.get", "images.get_registry_data",
                            "images.pull", "api.build", "containers.run"}) = {}

\* A runtime was asked for with the tag "3-s" on a daemon that has the images.
C17_Witness ==
    /\ factory.isolate /\ factory.cgroup = None
    /\ factory.python_tag = Some(<<"3", "-", "s">>)
    /\ factory.kind = "ValueError"
    /\ images # {}

(***************************************************************************)
(*                 Properties of the venv cache's keying                   *)
(***************************************************************************)
\* p is digits, a dot and digits.
IsMajorMinor(p) ==
    \E a \in 1..Len(p) :
        /\ a + 2 <= Len(p)
        /\ \A i \in 1..a : p[i] \in Digits
        /\ p[a + 1] = "."
        /\ \A i \in (a + 2)..Len(p) : p[i] \in Digits

\* The major.minor a tag starts with.
MajorMinor(tag) ==
    CHOOSE p \in {SubSeq(tag, 1, k) : k \in 1..Len(tag)} :
        /\ IsMajorMinor(p)
        /\ Len(p) = Len(tag) \/ tag[Len(p) + 1] \notin Digits

\* The slot of the call runtime r is in.
Key(r) == <<MajorMinor(rts[r].tag), rts[r].id>>

\* C18: venv cache slots are keyed by (major.minor, project id) alone.  A call
\* looks for the slot of its runtime's major.minor and of its project only, and
\* goes on to the entry point without creating anything exactly when that slot
\* is there, whichever runtime created it; and a slot changes only in a step of
\* a call whose runtime has the slot's major.minor and whose project is the
\* slot's.
C18_SlotsKeyedByMajorMinor ==
    [][\A r \in Runtimes :
        /\ (rts[r].pc = "check_slot" /\ rts'[r].pc # "check_slot") =>
              (rts'[r].pc = "main" <=> slots[Key(r)[1]][Key(r)[2]] # NoSlot)
        /\ rts'[r] # rts[r] =>
              \A v \in Versions, id \in ProjectIds :
                  slots'[v][id] # slots[v][id] =>
                      /\ Key(r) = <<v, id>>
                      /\ rts[r].pc \in {"venv", "install"}]_vars

\* Two runtimes with different tags of one major.minor ran the same project:
\* the first created the slot, the second found it and ran the entry point only.
C18_Witness ==
    \E r, o \in Runtimes :
        /\ rts[r].tag # rts[o].tag
        /\ rts[r].state = "ready" /\ rts[o].state = "ready"
        /\ MajorMinor(rts[r].tag) = MajorMinor(rts[o].tag)
        /\ Len(rts[r].hist) >= 1 /\ Len(rts[o].hist) >= 1
        /\ rts[r].hist[1].id = rts[o].hist[1].id
        /\ rts[r].hist[1].venvOk
        /\ rts[o].hist[1].found /\ rts[o].hist[1].cmds = <<"main">>
        /\ venvCreations[MajorMinor(rts[r].tag)][rts[r].hist[1].id] = 1

(***************************************************************************)
(*                      Properties of project_exists                       *)
(***************************************************************************)
\* C19: project_exists(id) is true exactly when the directory projects/<id>
\* exists, whether or not that directory holds main.py or a manifest and whether
\* or not the project has a venv cache slot.  (The projects root is as the call
\* found it for as long as no later create_project call was made.)
C19_ExistsIffDirectory ==
    (existsLast.asked /\ existsLast.after = lastCreate.n) =>
        (existsLast.result <=> projects[existsLast.id] # None)

\* A forced create_project call removed the directory of a project that has a
\* venv cache slot and failed before making a new one; project_exists, asked
\* afterwards, says no while the slot is still there.
C19_Witness ==
    /\ lastCreate.n = MaxCreates /\ lastCreate.existed /\ lastCreate.force
    /\ projects[lastCreate.id] = None
    /\ slots[HostPython][lastCreate.id] # NoSlot
    /\ existsLast.asked /\ existsLast.after = lastCreate.n
    /\ existsLast.id = lastCreate.id
    /\ ~existsLast.result

(***************************************************************************)
(*               Properties of run_project on both backends                *)
(***************************************************************************)
\* C20: run_project for an id that has no project directory raises
\* FileNotFoundError without executing any command, on both backends: the Host
\* runtime hands no command to its shell; the Isolated runtime's call ends at
\* once, not found, with no command run, and the id gets no venv cache slot.
C20_MissingProjectRunsNothing ==
    \A id \in ProjectIds :
        projects[id] = None =>
            /\ (hostRun.made /\ hostRun.id = id) =>
                  (hostRun.kind = "FileNotFoundError" /\ hostRun.cmds = <<>>)
            /\ \A r \in Runtimes :
                  /\ rts[r].pc # "idle" => rts[r].id # id
                  /\ \A i \in DOMAIN rts[r].hist :
                        rts[r].hist[i].id = id =>
                            (~rts[r].hist[i].found /\ rts[r].hist[i].cmds = <<>>)
            /\ \A v \in Versions :
                  slots[v][id] = NoSlot /\ venvCreations[v][id] = 0

\* Both backends were asked to run a project that has no directory.
C20_Witness ==
    \E id \in ProjectIds, r \in Runtimes :
        /\ projects[id] = None
        /\ hostRun.made /\ hostRun.id = id /\ hostRun.kind = "FileNotFoundError"
        /\ rts[r].state = "ready"
        /\ \E i \in DOMAIN rts[r].hist :
              rts[r].hist[i].id = id /\ ~rts[r].hist[i].found

(***************************************************************************)
(*                  Properties of dependency resolution                    *)
(***************************************************************************)
\* The versions an override's specifiers refer to, and the override of a call
\* that was made with one whose package the index gave releases for.
Referenced(dep) == {dep.specifiers[i].version : i \in DOMAIN dep.specifiers}
Published(pkg) == {pypi[pkg].ids[i] : i \in DOMAIN pypi[pkg].ids}
OverriddenPackage ==
    LET o == genLast.overrides[1] IN
    IF o.dep.package_name # None THEN o.dep.package_name[1] ELSE o.module
WithSpecifiers ==
    /\ genLast.made
    /\ genLast.overrides # <<>>
    /\ genLast.overrides[1].dep.specifiers # <<>>
    /\ pypi[OverriddenPackage].net = "response"
    /\ pypi[OverriddenPackage].status = 200
    /\ pypi[OverriddenPackage].complete
WellFormed(v) == v \in {"1", "2", "3"}

\* C21: generate_requirements, called without overrides on modules that are all
\* of the standard library, returns the empty list and asks the index nothing.
C21_StdlibOnlyResolvesToNothing ==
    (/\ genLast.made
     /\ genLast.overrides = <<>>
     /\ \A i \in DOMAIN genLast.module_names :
            genLast.module_names[i] \in {"os", "sys"})
    => /\ genLast.kind = "return"
       /\ genLast.value = <<>>
       /\ genLast.queries = <<>>

\* A call on the standard-library module `os` alone.
C21_Witness ==
    /\ genLast.made
    /\ genLast.overrides = <<>>
    /\ genLast.module_names = <<"os">>
    /\ genLast.kind = "return"

Meets(v, spec) ==
    LET place(w) == CHOOSE i \in 1..3 : <<"1", "2", "3">>[i] = w IN
    /\ WellFormed(v)
    /\ WellFormed(spec.version)
    /\ CASE spec.op = ">=" -> place(v) >= place(spec.version)
         [] spec.op = "<" -> place(v) < place(spec.version)
         [] spec.op = "==" -> v = spec.version
Satisfiable(dep, pkg) ==
    \E v \in Published(pkg) : \A i \in DOMAIN dep.specifiers : Meets(v, dep.specifiers[i])

\* C23: for an override whose specifiers refer to published versions only, the
\* requirement `package<specifiers>` is emitted if and only if some published
\* version satisfies all the specifiers together; when none does the call fails
\* with a ValueError instead.
C23_EmittedIffSatisfiable ==
    (WithSpecifiers
     /\ Referenced(genLast.overrides[1].dep) \subseteq Published(OverriddenPackage))
    => LET dep == genLast.overrides[1].dep
           emitted == /\ genLast.kind \notin {"ValueError"}
                      /\ genLast.queries # <<>>
                      /\ genLast.queries[1] = OverriddenPackage
                      /\ (genLast.kind = "return" =>
                             /\ genLast.value # <<>>
                             /\ genLast.value[1].pkg = OverriddenPackage
                             /\ genLast.value[1].spec # <<>>)
       IN /\ emitted <=> Satisfiable(dep, OverriddenPackage)
          /\ ~Satisfiable(dep, OverriddenPackage) => genLast.kind = "ValueError"

\* C24: the list generate_requirements returns is in resolution order and the
\* same for the same inputs: for the modules requests and pandas, in that
\* order, neither installed, with 2 the latest release of both, the result is
\* requests==2 followed by pandas==2.
C24_ResolutionOrder ==
    (/\ genLast.made
     /\ genLast.module_names = <<"requests", "pandas">>
     /\ genLast.overrides = <<>>
     /\ installed["requests"] = <<>> /\ installed["pandas"] = <<>>
     /\ pypi["requests"] = Releases(<<"1", "2">>, "2")
     /\ pypi["pandas"] = Releases(<<"1", "2">>, "2"))
    => /\ genLast.kind = "return"
       /\ genLast.value = <<Pinned("requests", "2"), Pinned("pandas", "2")>>

\* What the modules left after the overrides are to resolve to: for a module
\* with local packages, each package at its local version if the index
\* publishes that version; for any other, the module at the index's latest.
Expected(m) ==
    IF installed[m] # <<>>
    THEN {Pinned(installed[m][i].pkg, installed[m][i].version) :
              i \in {j \in DOMAIN installed[m] :
                        installed[m][j].version \in Published(installed[m][j].pkg)}}
    ELSE {Pinned(m, pypi[m].latest)}
Left ==
    ({genLast.module_names[i] : i \in DOMAIN genLast.module_names} \ {"os", "sys"})
    \ {genLast.overrides[i].module : i \in DOMAIN genLast.overrides}

C26_RegistryOutcomes ==
    /\ relLast.made =>
          LET a == relLast.answer
              failure == a.net = "unreachable" \/ ~a.complete
          IN /\ (~failure /\ a.status = 404) => relLast.kind = "LookupError"
             /\ (failure \/ (a.status \notin 200..299 /\ a.status # 404))
                    => relLast.kind = "ConnectionError"
             /\ relLast.kind = "return" =>
                    /\ ~failure /\ a.status = 200
                    /\ relLast.ids = a.ids /\ relLast.latest = a.latest
    /\ (genLast.made /\ genLast.kind \in {"LookupError", "ConnectionError"}) =>
          /\ genLast.queries # <<>>
          /\ \A i \in 1..(Len(genLast.queries) - 1) :
                get_package_release_info(pypi[genLast.queries[i]]).kind = "return"
          /\ genLast.value = <<>>

(***************************************************************************)
(*                   Properties of extract_module_names                    *)
(***************************************************************************)
\* Every node of a syntax tree, at any depth.
RECURSIVE Nodes(_)
Nodes(node) ==
    {node} \cup UNION {Nodes(c) : c \in {node.body[i] : i \in DOMAIN node.body}
                                     \cup {node.handlers[i] : i \in DOMAIN node.handlers}
                                     \cup {node.orelse[i] : i \in DOMAIN node.orelse}
                                     \cup {node.finalbody[i] : i \in DOMAIN node.finalbody}}

\* The modules a tree imports: the root of each name of an `import`, and the
\* module of each absolute `from ... import`.
Imported(tree) ==
    UNION {IF n.type = "Import" THEN {<<n.names[i][1]>> : i \in DOMAIN n.names}
           ELSE IF n.type = "ImportFrom" /\ n.level = 0 /\ n.module # None
           THEN {n.module[1]} ELSE {} : n \in Nodes(tree)}

\* C27: extract_module_names returns the union of the modules imported anywhere
\* in the tree, whatever the nesting: in the body and the else arm of an `if`,
\* in the body, the handlers, the else and the finally block of a `try`, and in
\* these nested in each other; each module name appears once.
C27_UnionOfAllImports ==
    (extractLast.made /\ extractLast.kind = "return")
    => /\ {extractLast.value[i] : i \in DOMAIN extractLast.value}
              = Imported(extractLast.script.tree)
       /\ \A i, j \in DOMAIN extractLast.value :
              extractLast.value[i] = extractLast.value[j] => i = j

\* A `try` whose second handler holds an `if` with `import a.b` in its else arm.
C27_Witness ==
    /\ extractLast.made /\ extractLast.kind = "return"
    /\ \E t \in Nodes(extractLast.script.tree) :
          /\ t.type = "Try" /\ Len(t.handlers) = 2
          /\ \E f \in Nodes(t.handlers[2]) :
                /\ f.type = "If"
                /\ \E i \in DOMAIN f.orelse : f.orelse[i].type = "Import"
    /\ <<"a">> \in {extractLast.value[i] : i \in DOMAIN extractLast.value}

(***************************************************************************)
(*                      Properties of RedirectServer                       *)
(***************************************************************************)
\* C28: intercept returns the URL of the request intercepted during that call
\* if one arrives, else None: a call during which no request arrives returns
\* None, also when an earlier call on the same server intercepted a request.
C28_InterceptReturnsThisCallsRequest ==
    (srvLast.op = "intercept" /\ srvLast.kind = "return")
    => srvLast.value = IF srvLast.arrival.kind = "request"
                       THEN Some(srvLast.arrival.url) ELSE None

\* The server as it was but for being inside `with`.
SameBut(s, inside) == [s EXCEPT !.inside = inside]

\* C30: a step of a call on the server changes whether it is running only as
\* follows.  It runs after start (or `with` entered, or redirect_url read)
\* exactly if it ran before or the call succeeded, and a call on a running
\* server changes nothing; it does not run after stop or after `with` is left,
\* and stop on a server that is not running changes nothing; url and intercept
\* leave it as it is and raise RuntimeError exactly if it is not running; and
\* at most one listening socket is open on its port.
C30_Lifecycle ==
    [][LET ran == server.instance
           runs == server'.instance
           op == srvLast'.op
           ok == srvLast'.kind = "return"
       IN /\ Sockets(server') <= 1
          /\ IF srvLast' = srvLast THEN runs = ran
             ELSE /\ op \in {"start", "enter", "redirect_url"} =>
                        /\ runs <=> (ran \/ ok)
                        /\ ran => (ok /\ SameBut(server', server.inside) = server)
                  /\ op \in {"stop", "exit"} =>
                        /\ ~runs /\ ok
                        /\ ~ran => SameBut(server', server.inside) = server
                  /\ op = "exit" => ~server'.inside
                  /\ op \in {"url", "intercept"} =>
                        /\ runs = ran
                        /\ ~ran <=> srvLast'.kind = "RuntimeError"]_vars

\* `with server:` was left after a request was intercepted inside it: the
\* server is not running and url raises.
C30_Witness ==
    /\ srvLast.op = "url" /\ srvLast.kind = "RuntimeError"
    /\ ~server.instance /\ ~server.inside
    /\ server.last_request_url # None

(***************************************************************************)
(*                         Properties of OAuthFlow                         *)
(***************************************************************************)
HasCodeParameter(url) == \E i \in DOMAIN url : url[i].key = "code"
FirstCode(url) ==
    url[CHOOSE i \in DOMAIN url :
            /\ url[i].key = "code"
            /\ \A j \in 1..(i - 1) : url[j].key # "code"].value
HasCodeValue(url) == \E i \in DOMAIN url : url[i].key = "code" /\ url[i].value # ""
FirstCodeValue(url) ==
    url[CHOOSE i \in DOMAIN url :
            /\ url[i].key = "code" /\ url[i].value # ""
            /\ \A j \in 1..(i - 1) : ~(url[j].key = "code" /\ url[j].value # "")].value

\* C29 as stated: what intercept returned settles the outcome.  No URL is a
\* TimeoutError; a URL without a code query parameter is a
\* ConnectionAbortedError; otherwise the code is the first code value; and
\* _generate_access_token is called only once a code was obtained.
C29_ThreeOutcomes ==
    /\ flow.generated => (flow.op = "authorize" /\ flow.code # None)
    /\ flow.intercepted =>
          /\ flow.req_url = None => flow.kind = "TimeoutError"
          /\ (flow.req_url # None /\ ~HasCodeParameter(flow.req_url[1]))
                => flow.kind = "ConnectionAbortedError"
          /\ (flow.req_url # None /\ HasCodeParameter(flow.req_url[1]))
                => /\ flow.code = Some(FirstCode(flow.req_url[1]))
                   /\ flow.op = "_get_auth_code" => flow.kind = "return"
                   /\ flow.op = "authorize" => flow.generated

\* C29: what intercept returned settles the outcome.  No URL is a
\* TimeoutError; a URL without a code query parameter that has a value (no
\* code parameter, or blank ones only) is a ConnectionAbortedError; otherwise
\* the code is the first code value that is not blank; and
\* _generate_access_token is called only once a code was obtained, never after
\* either error.
C29_OutcomesByCodeValue ==
    /\ flow.generated => (flow.op = "authorize" /\ flow.code # None)
    /\ flow.kind \in {"TimeoutError", "ConnectionAbortedError"} => ~flow.generated
    /\ flow.intercepted =>
          /\ flow.req_url = None => flow.kind = "TimeoutError"
          /\ (flow.req_url # None /\ ~HasCodeValue(flow.req_url[1]))
                => flow.kind = "ConnectionAbortedError"
          /\ (flow.req_url # None /\ HasCodeValue(flow.req_url[1]))
                => /\ flow.code = Some(FirstCodeValue(flow.req_url[1]))
                   /\ flow.op = "_get_auth_code" => flow.kind = "return"
                   /\ flow.op = "authorize" => flow.generated

\* authorize intercepted ?code=&code=c2 and generated a token from c2.
C29_Witness ==
    /\ flow.op = "authorize" /\ flow.intercepted
    /\ flow.req_url = Some(<<Pair("code", ""), Pair("code", "c2")>>)
    /\ flow.code = Some("c2")
    /\ flow.generated /\ flow.kind = "return"

(***************************************************************************)
(*                     Properties of DirectoryTracker                      *)
(***************************************************************************)
TrackingOperations == {"has_changes", "is_using_lfs", "commit", "undo",
                       "raise_if_not_tracking"}

\* C31: after delete() returned the directory is not tracked; a tracking
\* operation (has_changes, is_using_lfs, commit, undo, raise_if_not_tracking)
\* called while the directory is not tracked raises LookupError and runs no
\* command; a directory that is not tracked becomes tracked only by
\* initialize(), and after initialize() returned the directory is tracked.
C31_UntrackedUntilInitialize ==
    [][/\ trkLast'.op = "delete" /\ trkLast'.kind = "return" => ~is_tracking(tracker')
       /\ trkLast'.op \in TrackingOperations /\ ~trkLast'.tracked
            => trkLast'.kind = "LookupError" /\ trkLast'.cmds = <<>>
       /\ ~is_tracking(tracker) /\ is_tracking(tracker')
            => trkLast'.op = "initialize"
       /\ trkLast'.op = "initialize" /\ trkLast'.kind = "return"
            => is_tracking(tracker')]_vars

\* initialize() was called on a directory that was not tracked any more and
\* returned after `git init`, `git lfs install` and the initial commit: the
\* directory is tracked again.
C31_Witness ==
    /\ trkLast.op = "initialize"
    /\ trkLast.kind = "return"
    /\ ~trkLast.tracked
    /\ is_tracking(tracker)
    /\ Len(trkLast.cmds) = 4

(***************************************************************************)
(*            Properties of the Isolated runtime's run_project             *)
(***************************************************************************)
\* The run_project calls that found their project, finished or not.
CallsOf(r) ==
    {rts[r].hist[i] : i \in {k \in DOMAIN rts[r].hist : rts[r].hist[k].found}}

\* The commands of a call that found the slot absent or present, for a project
\* with or without the requirements.txt manifest.
CommandsFor(absent, manifest) ==
    IF ~absent THEN <<"main">>
    ELSE <<"venv">> \o (IF manifest THEN <<"install">> ELSE <<>>) \o <<"main">>

\* C32: a run_project call of an Isolated runtime that finds the venv cache slot
\* absent issues `uv venv`, then the install from the manifest if and only if
\* the project has a requirements.txt, then the entry point; a call that finds
\* the slot present issues the entry point only; every call on an existing
\* project issues the entry point exactly once.
C32_CommandOrder ==
    \A r \in Runtimes : \A call \in CallsOf(r) :
        /\ call.absent # None
        /\ call.cmds = CommandsFor(call.absent[1],
                                   "requirements.txt" \in DOMAIN projects[call.id][1])
        /\ Count(call.cmds, "main") = 1

\* A runtime ran a project without a manifest twice: the first call found the
\* slot absent and issued `uv venv` and the entry point, the second found the
\* slot and issued the entry point alone; another call installed from a manifest.
C32_Witness ==
    \E r \in Runtimes, o \in Runtimes :
        /\ Len(rts[r].hist) >= 2
        /\ rts[r].hist[1].absent = Some(TRUE)
        /\ rts[r].hist[1].cmds = <<"venv", "main">>
        /\ rts[r].hist[2].absent = Some(FALSE)
        /\ rts[r].hist[2].cmds = <<"main">>
        /\ \E call \in CallsOf(o) : call.cmds = <<"venv", "install", "main">>

(***************************************************************************)
(*                  Properties of failed create_project calls              *)
(***************************************************************************)
\* The last create_project call was ended by _validate_script_and_requirements:
\* the script was not found, or the derivation of the requirements failed.
FailedValidation(call) ==
    /\ call.checked
    /\ call.kind \notin {"return", "FileExistsError"}
    /\ call.cmds = <<>>

\* C34: a create_project call that raises because the script file is not found
\* or because dependency resolution failed leaves the projects root exactly as
\* it was before the call, also with force=True for an id whose project exists.
C34_FailedCreateLeavesRoot ==
    [][lastCreate'.n # lastCreate.n /\ FailedValidation(lastCreate')
          => projects' = projects]_vars

\* C34 without the forced calls on an existing project.
C34_UnforcedFailedCreateLeavesRoot ==
    [][(/\ lastCreate'.n # lastCreate.n
        /\ FailedValidation(lastCreate')
        /\ ~(lastCreate'.force /\ lastCreate'.existed))
          => projects' = projects]_vars

(***************************************************************************)
(*                     Properties of the venv cache slots                  *)
(***************************************************************************)
\* A step of a run_project call of an Isolated runtime in which a command of
\* the call is run.
RunProjectStep ==
    \E r \in Runtimes :
        /\ rts[r].pc \in {"venv", "install"}
        /\ rts'[r].cmds = Append(rts[r].cmds, rts[r].pc)

\* An argument that is a path under /var/o8-venvs, where the slots are mounted.
UnderSlots(arg) == Len(arg) >= 2 /\ arg[1] = "var" /\ arg[2] = "o8-venvs"

\* C33: the venv cache slots are changed by run_project calls of an Isolated
\* runtime alone: run_script on either runtime, with or without requirements,
\* the construction of a runtime, create_project and run_project on a Host
\* runtime leave every slot as it was; and the command of a run_script call
\* names no path of a slot.
C33_SlotsChangedByRunProjectOnly ==
    [][/\ slots' # slots =>
            /\ RunProjectStep
            /\ scriptRun' = scriptRun /\ hostRun' = hostRun
            /\ lastCreate' = lastCreate
            /\ \A r \in Runtimes : rts'[r].state = rts[r].state
       /\ scriptRun' # scriptRun =>
            \A i \in DOMAIN scriptRun'.cmd : ~UnderSlots(scriptRun'.cmd[i])]_vars

\* With the slot of project "a" filled, a script was run with requirements on
\* the Isolated runtime, project "a" was created anew, a second runtime was
\* constructed and a run_project call made the slot of project "b".
C33_Witness ==
    /\ scriptRun.made /\ scriptRun.backend = "isolated" /\ scriptRun.kind = "return"
    /\ \E i \in DOMAIN scriptRun.cmd : scriptRun.cmd[i] = Word("--with")
    /\ lastCreate.n = MaxCreates /\ lastCreate.kind = "return"
    /\ rts["r2"].state = "ready"
    /\ slots[HostPython]["a"] # NoSlot
    /\ slots[HostPython]["b"] # NoSlot

\* The Host runtime ran a script and the slots are as they were.
C33_HostWitness ==
    /\ scriptRun.made /\ scriptRun.backend = "host" /\ scriptRun.kind = "return"
    /\ slots = CachedSlots

\* C35: when run_project of an Isolated runtime executes the entry point of a
\* project that has a manifest, with an environment in the project's slot that
\* was installed from a manifest, that manifest lists what the manifest of the
\* project as it is now materialized lists, also after create_project(force=True)
\* replaced the project with other requirements.
C35_EnvironmentOfCurrentManifest ==
    [][\A r \in Runtimes :
        (/\ rts[r].pc = "main" /\ rts'[r].pc = "idle"
         /\ has_manifest(projects, rts[r].id)
         /\ slots[rts[r].version][rts[r].id] # NoSlot
         /\ slots[rts[r].version][rts[r].id][1].installed # None)
        => slots[rts[r].version][rts[r].id][1].installed[1].content
              = projects[rts[r].id][1]["requirements.txt"].content]_vars

\* No run_project call on the slot of (v, id) is under way.
Settled(v, id) ==
    \A r \in Runtimes :
        rts[r].pc = "idle" \/ rts[r].version # v \/ rts[r].id # id

\* C36: between run_project calls, a venv cache slot that exists for a project
\* with a manifest holds an environment into which the manifest was installed:
\* a call whose `uv venv` succeeded and whose install failed leaves no slot that
\* later calls would reuse without installing.
C36_SlotMeansInstalled ==
    \A v \in Versions, id \in ProjectIds :
        (/\ slots[v][id] # NoSlot
         /\ has_manifest(projects, id)
         /\ Settled(v, id))
        => slots[v][id][1].installed # None

\* The packages through which a module that is left can be resolved: its
\* locally installed packages, or the module's own name.
PackagesOf(m) ==
    IF installed[m] # <<>>
    THEN {installed[m][i].pkg : i \in DOMAIN installed[m]}
    ELSE {m}
Covered(m) ==
    \E i \in DOMAIN genLast.value : genLast.value[i].pkg \in PackagesOf(m)

OverridePackage(o) ==
    IF o.dep.package_name # None THEN o.dep.package_name[1] ELSE o.module
InputModules ==
    {genLast.module_names[i] : i \in DOMAIN genLast.module_names} \ {"os", "sys"}
LeftPackages == UNION {PackagesOf(m) : m \in Left}

\* The number of registry queries the modules of S take when each is resolved
\* once: one per locally installed package, or one for the module's name.
RECURSIVE RouteQueries(_)
RouteQueries(S) ==
    IF S = {} THEN 0
    ELSE LET m == CHOOSE x \in S : TRUE
         IN (IF installed[m] # <<>> THEN Len(installed[m]) ELSE 1)
            + RouteQueries(S \ {m})

C39_RootNamesOnly ==
    (extractLast.made /\ extractLast.kind = "return")
    => \A i \in DOMAIN extractLast.value : Len(extractLast.value[i]) = 1

\* The same for the names that come of `import` statements alone; this holds.
C39_ImportRootNamesOnly ==
    (extractLast.made /\ extractLast.kind = "return")
    => \A i \in DOMAIN extractLast.value :
          Len(extractLast.value[i]) = 1
          \/ \E n \in Nodes(extractLast.script.tree) :
                 /\ n.type = "ImportFrom" /\ n.level = 0
                 /\ n.module = Some(extractLast.value[i])

====
